---- MODULE Spec2Model ----
(***************************************************************************)
(* A model of the SFU server (DDPidhi/sfu-server): the room registry       *)
(* (sfu/room.rs), the track manager (sfu/track_manager.rs), and the join,  *)
(* track-notification and removal paths of the server (sfu/server.rs) as   *)
(* driven by the per-socket signaling handler (sfu/signaling.rs).          *)
(***************************************************************************)
EXTENDS Naturals, Sequences, FiniteSets, TLC

(***************************************************************************)
(* Bounds of the model.                                                    *)
(***************************************************************************)
\* A room's student list holds at most MaxStudents ids.
MaxStudents == 2

\* The signaling handlers accept at most MaxEnvelopes envelopes in a run.
MaxEnvelopes == 3

\* peers_with_tracks is only ever incremented: at most MaxTracks tracks are
\* published in a run.
MaxTracks == 1

\* At most MaxCandidates IceCandidate envelopes and MaxAnswers Answer
\* envelopes are received for the peer.
MaxCandidates == 3

MaxAnswers == 2

\* The target peer id is connected at most MaxConns times and is forwarded
\* at most MaxAdds tracks.
MaxConns == 2

MaxAdds == 2

\* At most MaxChainEnvelopes envelopes are handled in a run of the handlers
\* that emit domain events.
MaxChainEnvelopes == 5

\* Envelopes handled over a run that ends with a closed socket.
MaxCloseEnvelopes == 4

\* The grade a SubmitExamResult stores, in basis points.
Grades == { 8500 }

\* Seconds the clock of the event processor runs for.
MaxTime == 3

\* Events queued over a run of the event processor.
MaxEmits == 3

\* SubmitExamResult envelopes handled over a run.
MaxSubmits == 2

\* A u64 is held as four 16-bit limbs, least significant first.
LimbBase == 65536

\* The factor of (score * 10000) / total.
BasisPoints == 10000

\* Scores of SubmitExamResult: 0, 1, 85, 100, 2^16, 2^32, the largest score
\* whose product with 10000 fits 64 bits, the next one, and 2^64 - 1.
Scores == { <<0, 0, 0, 0>>, <<1, 0, 0, 0>>, <<85, 0, 0, 0>>, <<100, 0, 0, 0>>,
            <<0, 1, 0, 0>>, <<0, 0, 1, 0>>,
            <<4299, 47815, 36280, 6>>, <<4300, 47815, 36280, 6>>,
            <<65535, 65535, 65535, 65535>> }

\* Totals of SubmitExamResult, all below 2^15.
Totals == { <<0, 0, 0, 0>>, <<1, 0, 0, 0>>, <<3, 0, 0, 0>>, <<100, 0, 0, 0>>,
            <<10000, 0, 0, 0>>, <<32767, 0, 0, 0>> }

\* const TX_DELAY: Duration = Duration::from_secs(3)
TX_DELAY == 3

\* Wallet addresses of participants; "" stands for no wallet.
Wallets == { "a" }

\* Peer ids are client-chosen strings, modelled as sequences of characters
\* so that String::starts_with is computed and not assumed.
PeerIds == { <<"p">>, <<"p", "1">>, <<"q">> }

\* generate_room_id draws a six-digit id; two ids let a collision and a
\* second room both happen.
RoomIds == { 1, 2 }

\* One signaling handler per client socket.
Sockets == { "s1", "s2" }

\* RTP kinds of the tracks a peer publishes, and the client's own track id.
TrackKinds == { "video" }
OrigTrackId == "t"

\* Option::None for a peer id or a room id.
None == <<>>

VARIABLES
    rooms,              \* RoomManager.rooms : room_id -> Room
    peers,              \* RoomManager.peers : peer_id -> Peer
    last,               \* the registry call made last, with what it returned
    connections,        \* SfuServer.connections : peer_id -> SfuConnection
    tracks,             \* TrackManager.tracks : track_id -> ForwardedTrack
    peers_with_tracks,  \* SfuServer.peers_with_tracks : peer_id -> usize
    notif,              \* the track-notification channel, oldest first
    sock,               \* per socket: the signaling handler and its position
    envelopes           \* envelopes accepted so far

\* ICE trickle of one connected peer (SfuServer::handle_ice_candidate,
\* handle_answer, flush_pending_ice_candidates).
VARIABLES
    remote_description, \* the peer connection has a remote description
    pending_ice,        \* SfuServer.pending_ice_candidates[peer_id]
    added_ice,          \* candidates given to add_ice_candidate, in order
    queued_ice,         \* candidates that were put on the pending queue
    ice_count,          \* IceCandidate envelopes received so far
    answer_count,       \* Answer envelopes received so far
    iceh                \* per socket: the handler's position in these paths

\* Offers and renegotiation towards one target peer (SfuServer::add_peer,
\* create_and_send_offer, handle_track_received, perform_renegotiation_static).
VARIABLES
    conn,                   \* 0: not in the connection table; else which connection
    conn_count,             \* connections created for the peer id so far
    signaling_state,        \* of the peer's current connection
    pc_tracks,              \* tracks added to the current peer connection
    add_count,              \* tracks forwarded to the peer so far
    pending_renegotiations, \* SfuServer.pending_renegotiations has the peer id
    timers,                 \* spawned renegotiation tasks still in their sleep
    attempts,               \* offer tasks past their start, with their position
    sent                    \* Offer / Renegotiate envelopes sent to the peer

renegvars == <<conn, conn_count, signaling_state, pc_tracks, add_count,
               pending_renegotiations, timers, attempts, sent>>

\* Wallets, recordings, exam grades and what a handler emits and sends.
VARIABLES
    enabled,            \* RecordingManager.enabled (configuration)
    peer_wallets,       \* SfuServer.peer_wallets: the peer ids with a wallet
    recordings,         \* RecordingManager.recordings: keys <<room_id, peer_id>>
    peer_exam_grades,   \* SfuServer.peer_exam_grades : peer_id -> grade
    log,                \* what the last handler emitted, sent and closed, in order
    lastev,             \* the envelope the last handler handled
    ev_count            \* envelopes handled so far

chainvars == <<enabled, peer_wallets, recordings, peer_exam_grades, log, lastev,
               ev_count>>

\* The chain event queue and its background processor (substrate/queue.rs).
VARIABLES
    open_rooms,         \* room ids the registry holds (created, not yet closed)
    chan,               \* the unbounded channel of queued events, oldest first
    emitted,            \* events queued so far
    qpc,                \* the processor: "idle", "sleep" or "submit"
    cur,                \* the event the processor took from the channel
    now,                \* the clock, in seconds
    wake,               \* when the processor's sleep ends
    started,            \* when handle_event was called for cur
    last_tx_times,      \* TransactionTracker.last_tx_times: key -> completion time
    room_created,       \* TransactionTracker.room_created: the rooms marked
    done,               \* the submissions made, in order, with their times
    result              \* what the last handle_event returned: "Ok", "Err", or "none"

queuevars == <<open_rooms, chan, emitted, qpc, cur, now, wake, started,
               last_tx_times, room_created, done, result>>

\* The last SubmitExamResult envelope and what its handler did with it.
VARIABLES
    sub_score,          \* score of the envelope (64-bit, as 16-bit limbs)
    sub_total,          \* total of the envelope
    grade_stored,       \* what set_exam_grade stored, or None
    grade_ack,          \* the grade of the ExamResultSubmitted reply, or None
    submits             \* envelopes handled so far

gradevars == <<sub_score, sub_total, grade_stored, grade_ack, submits>>

\* The tables keyed by peer id that a removal has to clear.
VARIABLES
    pending_students,   \* SfuServer.pending_students: the keys
    pending_ice_peers,  \* SfuServer.pending_ice_candidates: the keys
    pending_reneg_peers \* SfuServer.pending_renegotiations: the keys

closevars == <<pending_students, pending_ice_peers, pending_reneg_peers>>

\* The sockets and their signaling handlers, as the error paths see them.
VARIABLES
    ws_state,           \* per socket: "new", "open" (receive loop runs) or "closed"
    handler_peer,       \* SfuSignalingHandler.peer_id of the socket's handler
    conn_sender,        \* SfuConnection.sender: the socket the channel writes to
    pending_sender,     \* PendingStudent.sender, by student peer id
    dead_sockets,       \* sockets whose writer task ended: the channel has no receiver
    origin,             \* the socket whose envelope the last handler handled
    op_failed,          \* the server operation of the last handler returned Err
    replies             \* envelope types the last handler sent to its own socket

errvars == <<ws_state, handler_peer, conn_sender, pending_sender, dead_sockets,
             origin, op_failed, replies>>

\* The room id generator.
VARIABLES
    generated,          \* the String generate_room_id returned last, as digits
    gen_count           \* calls of generate_room_id so far

idvars == <<generated, gen_count>>

\* The join of one student, from handle_join to the end of add_peer.
VARIABLES
    wait                \* where the join is, with the loop's counters

\* The Track Manager called directly.
VARIABLES
    tm_call,            \* the last create_local_track_for_peer call and what it returned
    tm_given            \* the (track_id, target) pairs a call has returned a sink for

tmvars == <<tm_call, tm_given>>

\* The RTP read loop of one published track.
VARIABLES
    rtp,                \* the task start_track_forwarding spawned: its locals and the clock
    rtp_log             \* what the task read, sent and wrote, in program order

rtpvars == <<rtp, rtp_log>>

\* Recording pipelines called directly.
VARIABLES
    pipes,              \* RecordingPipeline.state of each pipeline made so far
    pipe_call           \* the last start or stop call and what it returned

pipevars == <<pipes, pipe_call>>

\* The two RwLocks of the RoomManager and the calls that take them.
VARIABLES
    locks,              \* per lock: the call holding it for writing (0: none), the readers
    calls               \* per call: the operation and how far it has come

lockvars == <<locks, calls>>

\* The RecordingManager's map lock, a stop in progress, and the read loops.
VARIABLES
    rec_lock,           \* RecordingManager.recordings RwLock: writer (0: none), readers
    stopper,            \* the stop_recording / stop_all_recordings_in_room call in progress
    loops               \* per publisher: where its read loop is, and its pushes so far

recvars == <<rec_lock, stopper, loops>>

\* The state of the specifications written after the handlers of SpecClose.
latevars == <<errvars, idvars, wait, tmvars, rtpvars, pipevars, lockvars, recvars>>

icevars == <<remote_description, pending_ice, added_ice, queued_ice, ice_count,
             answer_count, iceh>>

\* The state of the paths that have a specification of their own.
extvars == <<icevars, renegvars, chainvars, queuevars, gradevars, closevars,
            latevars>>

\* The registry, the connection table, the Track Manager and the sockets.
basevars == <<rooms, peers, last, connections, tracks, peers_with_tracks,
              notif, sock, envelopes>>

\* What the ICE handlers leave alone.
nonice == <<basevars, renegvars, chainvars, queuevars, gradevars, closevars,
             latevars>>

\* What the handlers that emit domain events leave alone, besides the
\* tables each of them names.
nonchain == <<icevars, renegvars, queuevars, gradevars,
               latevars>>

\* What the event processor leaves alone.
nonqueue == <<basevars, icevars, renegvars, chainvars, gradevars, closevars,
               latevars>>

\* What handle_submit_exam_result leaves alone in its own specification.
nongrade == <<basevars, icevars, renegvars, chainvars, queuevars, closevars,
               latevars>>

\* What the offer and renegotiation tasks leave alone.
nonreneg == <<basevars, icevars, chainvars, queuevars, gradevars, closevars,
               latevars>>

rmvars == <<rooms, peers, last>>

srvvars == <<connections, tracks, peers_with_tracks, notif, sock, envelopes, extvars>>

vars == <<rooms, peers, last, connections, tracks, peers_with_tracks, notif,
          sock, envelopes, extvars>>

(***************************************************************************)
(* HashMap insert / remove on a function with a finite domain.             *)
(***************************************************************************)
Put(f, k, v) == [x \in (DOMAIN f) \cup {k} |-> IF x = k THEN v ELSE f[x]]

Del(f, k) == [x \in (DOMAIN f) \ {k} |-> f[x]]

EmptyMap == [x \in {} |-> 0]

Contains(seq, e) == \E i \in 1..Len(seq) : seq[i] = e

\* Vec::retain(|id| id != e)
RECURSIVE Retain(_, _)
Retain(seq, e) ==
    IF seq = <<>> THEN <<>>
    ELSE IF Head(seq) = e THEN Retain(Tail(seq), e)
         ELSE <<Head(seq)>> \o Retain(Tail(seq), e)

Range(seq) == { seq[i] : i \in 1..Len(seq) }

(***************************************************************************)
(* RoomManager (sfu/room.rs).  Every operation takes the two maps and      *)
(* returns the maps it leaves, with its return value.                      *)
(***************************************************************************)
\* create_room with the id generate_room_id drew.  The only failure is a
\* collision of the room id; the peer map is not consulted.
create_room(rms, prs, room_id, proctor_id) ==
    IF room_id \in DOMAIN rms
    THEN [ok |-> FALSE, rooms |-> rms, peers |-> prs]
    ELSE [ok |-> TRUE,
          rooms |-> Put(rms, room_id,
                        [id |-> room_id, proctor_id |-> proctor_id, students |-> <<>>]),
          peers |-> Put(prs, proctor_id,
                        [id |-> proctor_id, role |-> "Proctor", room_id |-> room_id])]

\* join_room without the check that the student is already in the room.
join_room_NoDedup(rms, prs, room_id, student_id) ==
    IF room_id \notin DOMAIN rms
    THEN [ok |-> FALSE, rooms |-> rms, peers |-> prs]
    ELSE [ok |-> TRUE,
          rooms |-> [rms EXCEPT ![room_id].students = Append(@, student_id)],
          peers |-> Put(prs, student_id,
                        [id |-> student_id, role |-> "Student", room_id |-> room_id])]

\* join_room that records the peer before it looks the room up.
join_room_PeerFirst(rms, prs, room_id, student_id) ==
    IF room_id \notin DOMAIN rms
    THEN [ok |-> FALSE, rooms |-> rms,
          peers |-> Put(prs, student_id,
                        [id |-> student_id, role |-> "Student", room_id |-> room_id])]
    ELSE IF Contains(rms[room_id].students, student_id)
    THEN [ok |-> TRUE, rooms |-> rms, peers |-> prs]
    ELSE [ok |-> TRUE,
          rooms |-> [rms EXCEPT ![room_id].students = Append(@, student_id)],
          peers |-> Put(prs, student_id,
                        [id |-> student_id, role |-> "Student", room_id |-> room_id])]

join_room(rms, prs, room_id, student_id) ==
    IF room_id \notin DOMAIN rms
    THEN [ok |-> FALSE, rooms |-> rms, peers |-> prs]
    ELSE IF Contains(rms[room_id].students, student_id)
    THEN [ok |-> TRUE, rooms |-> rms, peers |-> prs]
    ELSE [ok |-> TRUE,
          rooms |-> [rms EXCEPT ![room_id].students = Append(@, student_id)],
          peers |-> Put(prs, student_id,
                        [id |-> student_id, role |-> "Student", room_id |-> room_id])]

\* remove_peer whose Proctor branch drops the room and leaves its students.
remove_peer_KeepStudents(rms, prs, peer_id) ==
    IF peer_id \notin DOMAIN prs
    THEN [found |-> FALSE, room_id |-> None, role |-> "", rooms |-> rms, peers |-> prs]
    ELSE LET peer == prs[peer_id]
             prs1 == Del(prs, peer_id)
         IN  IF peer.room_id \notin DOMAIN rms
             THEN [found |-> TRUE, room_id |-> peer.room_id, role |-> peer.role,
                   rooms |-> rms, peers |-> prs1]
             ELSE IF peer.role = "Proctor"
             THEN [found |-> TRUE, room_id |-> peer.room_id, role |-> peer.role,
                   rooms |-> Del(rms, peer.room_id), peers |-> prs1]
             ELSE [found |-> TRUE, room_id |-> peer.room_id, role |-> peer.role,
                   rooms |-> [rms EXCEPT ![peer.room_id].students = Retain(@, peer_id)],
                   peers |-> prs1]

\* remove_peer returns Some((room_id, role, name)) or None.
remove_peer(rms, prs, peer_id) ==
    IF peer_id \notin DOMAIN prs
    THEN [found |-> FALSE, room_id |-> None, role |-> "", rooms |-> rms, peers |-> prs]
    ELSE LET peer == prs[peer_id]
             prs1 == Del(prs, peer_id)
         IN  IF peer.room_id \notin DOMAIN rms
             THEN [found |-> TRUE, room_id |-> peer.room_id, role |-> peer.role,
                   rooms |-> rms, peers |-> prs1]
             ELSE IF peer.role = "Proctor"
             THEN [found |-> TRUE, room_id |-> peer.room_id, role |-> peer.role,
                   rooms |-> Del(rms, peer.room_id),
                   peers |-> [x \in { y \in DOMAIN prs1 : prs1[y].room_id # peer.room_id }
                                 |-> prs1[x]]]
             ELSE [found |-> TRUE, room_id |-> peer.room_id, role |-> peer.role,
                   rooms |-> [rms EXCEPT ![peer.room_id].students = Retain(@, peer_id)],
                   peers |-> prs1]

get_room_peers(prs, room_id) == { x \in DOMAIN prs : prs[x].room_id = room_id }

room_exists(rms, room_id) == room_id \in DOMAIN rms

get_room_proctor(rms, room_id) ==
    IF room_id \in DOMAIN rms THEN rms[room_id].proctor_id ELSE None

\* should_forward_track without the same-room test.
should_forward_track_AnyRoom(prs, from, to) ==
    IF from = to THEN FALSE
    ELSE IF from \notin DOMAIN prs THEN FALSE
    ELSE IF to \notin DOMAIN prs THEN FALSE
    ELSE IF prs[from].role = "Proctor" THEN TRUE
    ELSE IF prs[to].role = "Proctor" THEN TRUE
    ELSE FALSE

\* should_forward_track that admits nothing from a Student.
should_forward_track_ProctorOnly(prs, from, to) ==
    IF from = to THEN FALSE
    ELSE IF from \notin DOMAIN prs THEN FALSE
    ELSE IF to \notin DOMAIN prs THEN FALSE
    ELSE IF prs[from].room_id # prs[to].room_id THEN FALSE
    ELSE IF prs[from].role = "Proctor" THEN TRUE
    ELSE FALSE

should_forward_track(prs, from, to) ==
    IF from = to THEN FALSE
    ELSE IF from \notin DOMAIN prs THEN FALSE
    ELSE IF to \notin DOMAIN prs THEN FALSE
    ELSE IF prs[from].room_id # prs[to].room_id THEN FALSE
    ELSE IF prs[from].role = "Proctor" THEN TRUE
    ELSE IF prs[to].role = "Proctor" THEN TRUE
    ELSE FALSE

(***************************************************************************)
(* TrackManager (sfu/track_manager.rs) and track ids (sfu/connection.rs).  *)
(***************************************************************************)
\* format!("{}_{}_{}", peer_id, track_kind, original_track_id)
TrackId(peer_id, kind, orig) == peer_id \o <<"_", kind, "_", orig>>

\* str::starts_with
StartsWith(s, prefix) ==
    /\ Len(prefix) <= Len(s)
    /\ SubSeq(s, 1, Len(prefix)) = prefix

\* add_track inserts a fresh entry, replacing one of the same id.
add_track(trks, track_id, source_peer_id) ==
    Put(trks, track_id, [source_peer_id |-> source_peer_id, local_tracks |-> {}])

\* create_local_track_for_peer that makes a sink at every call.
create_local_track_for_peer_AlwaysNew(trks, track_id, target_peer_id) ==
    IF track_id \notin DOMAIN trks
    THEN [some |-> FALSE, is_new |-> FALSE, tracks |-> trks]
    ELSE IF trks[track_id].source_peer_id = target_peer_id
    THEN [some |-> FALSE, is_new |-> FALSE, tracks |-> trks]
    ELSE [some |-> TRUE, is_new |-> TRUE,
          tracks |-> [trks EXCEPT ![track_id].local_tracks = @ \cup {target_peer_id}]]

\* create_local_track_for_peer: None for an unknown track or the track's
\* own source; otherwise the sink of (track_id, target), created if absent.
create_local_track_for_peer(trks, track_id, target_peer_id) ==
    IF track_id \notin DOMAIN trks
    THEN [some |-> FALSE, is_new |-> FALSE, tracks |-> trks]
    ELSE IF trks[track_id].source_peer_id = target_peer_id
    THEN [some |-> FALSE, is_new |-> FALSE, tracks |-> trks]
    ELSE IF target_peer_id \in trks[track_id].local_tracks
    THEN [some |-> TRUE, is_new |-> FALSE, tracks |-> trks]
    ELSE [some |-> TRUE, is_new |-> TRUE,
          tracks |-> [trks EXCEPT ![track_id].local_tracks = @ \cup {target_peer_id}]]

remove_peer_tracks(trks, peer_id) ==
    [t \in { u \in DOMAIN trks : trks[u].source_peer_id # peer_id } |-> trks[t]]

(***************************************************************************)
(* SfuServer (sfu/server.rs).                                              *)
(***************************************************************************)
RECURSIVE SumCounts(_, _)
SumCounts(f, S) ==
    IF S = {} THEN 0
    ELSE LET x == CHOOSE y \in S : TRUE IN f[x] + SumCounts(f, S \ {x})

\* The orders in which a HashMap may hand out the elements of S.
Orders(S) ==
    { f \in [1..Cardinality(S) -> S] : \A i, j \in 1..Cardinality(S) : f[i] = f[j] => i = j }

\* get_tracks_for_peer: for each track, the first room peer (in the order the
\* peer map is iterated) whose id the track id starts with and who is not
\* the joining peer decides, by the forwarding policy, whether it is seeded.
get_tracks_for_peer(prs, trks, peer_id, room_id, order) ==
    { t \in DOMAIN trks :
        \E i \in 1..Len(order) :
            /\ StartsWith(t, order[i]) /\ order[i] # peer_id
            /\ \A j \in 1..(i - 1) : ~(StartsWith(t, order[j]) /\ order[j] # peer_id)
            /\ should_forward_track(prs, order[i], peer_id) }

\* add_existing_tracks: a sink per seeded track, attached to the new
\* connection.  Returns the Track Manager map and the attached track ids.
RECURSIVE add_existing_tracks(_, _, _)
add_existing_tracks(trks, peer_id, todo) ==
    IF todo = {} THEN [tracks |-> trks, attached |-> {}]
    ELSE LET t == CHOOSE x \in todo : TRUE
             c == create_local_track_for_peer(trks, t, peer_id)
             rest == add_existing_tracks(c.tracks, peer_id, todo \ {t})
         IN  [tracks |-> rest.tracks,
              attached |-> IF c.some THEN rest.attached \cup {t} ELSE rest.attached]

\* close_peer_connection, for each id of a set.
RECURSIVE close_peer_connections(_, _, _)
close_peer_connections(conns, trks, ids) ==
    IF ids = {} THEN [connections |-> conns, tracks |-> trks]
    ELSE LET x == CHOOSE y \in ids : TRUE
         IN  close_peer_connections(Del(conns, x), remove_peer_tracks(trks, x), ids \ {x})

\* SfuServer::remove_peer.  The students to close are read from the registry
\* after RoomManager::remove_peer has returned.
server_remove_peer(rms, prs, conns, trks, peer_id) ==
    LET r == remove_peer(rms, prs, peer_id)
        conns1 == Del(conns, peer_id)
        trks1 == remove_peer_tracks(trks, peer_id)
        students_to_close ==
            IF r.found /\ r.role = "Proctor"
            THEN get_room_peers(r.peers, r.room_id) \ {peer_id}
            ELSE {}
        closed == close_peer_connections(conns1, trks1, students_to_close)
    IN  [rooms |-> r.rooms, peers |-> r.peers, found |-> r.found, role |-> r.role,
         room_id |-> r.room_id,
         connections |-> closed.connections, tracks |-> closed.tracks]

\* The sinks handle_track_received creates for one notification: one per
\* other connected peer the policy admits, attached to that connection.
RECURSIVE forward_to_targets(_, _, _, _, _)
forward_to_targets(prs, conns, trks, track_id, todo) ==
    IF todo = {} THEN [connections |-> conns, tracks |-> trks]
    ELSE LET target == CHOOSE y \in todo : TRUE
             c == create_local_track_for_peer(trks, track_id, target)
         IN  forward_to_targets(
                 prs,
                 IF c.some THEN [conns EXCEPT ![target].tracks = @ \cup {track_id}] ELSE conns,
                 c.tracks, track_id, todo \ {target})

handle_track_received(prs, conns, trks, peer_id, track_id) ==
    forward_to_targets(prs, conns, trks, track_id,
        { target \in DOMAIN conns :
            target # peer_id /\ should_forward_track(prs, peer_id, target) })

(***************************************************************************)
(* Initial state: an empty registry, no connection, idle handlers.         *)
(***************************************************************************)
IdleIce == [pc |-> "idle", cand |-> 0, todo |-> <<>>]

\* The peer has just been inserted into the connection table: no remote
\* description, no pending candidate.
IceInit ==
    /\ remote_description = FALSE
    /\ pending_ice = <<>>
    /\ added_ice = <<>>
    /\ queued_ice = {}
    /\ ice_count = 0
    /\ answer_count = 0
    /\ iceh = [s \in Sockets |-> IdleIce]

\* The target peer is not connected; nothing is scheduled.
RenegInit ==
    /\ conn = 0
    /\ conn_count = 0
    /\ signaling_state = "stable"
    /\ pc_tracks = 0
    /\ add_count = 0
    /\ pending_renegotiations = FALSE
    /\ timers = 0
    /\ attempts = <<>>
    /\ sent = <<>>

NoEnvelope == [op |-> "none", peer |-> None, room |-> 0]

\* No wallet, no recording, no grade.
ChainInit ==
    /\ peer_wallets = {}
    /\ recordings = {}
    /\ peer_exam_grades = EmptyMap
    /\ log = <<>>
    /\ lastev = NoEnvelope
    /\ ev_count = 0

NoCall == [op |-> "none", peer |-> None, to |-> None, room |-> 0, ok |-> FALSE]

\* No stop call is running.
NoStop == [pc |-> "idle", room |-> 0, todo |-> {}, cur |-> None, n |-> 0]

MaxLockCalls == 2

LockCalls == 1..MaxLockCalls

\* RoomManager::new: nobody holds rooms or peers.
FreeLocks == [rooms |-> [writer |-> 0, readers |-> {}],
              peers |-> [writer |-> 0, readers |-> {}]]

NoLockCall == [op |-> "none", held |-> 0, plan |-> <<>>]

\* No call of a pipeline yet.
NoPipeCall == [id |-> 0, op |-> "none", ok |-> FALSE, before |-> "", n |-> 0]

\* No read loop yet.
NoRtp == [pc |-> "none", kind |-> "", packet_count |-> 0, last_pli_time |-> 0, now |-> 0]

\* No call of the Track Manager yet.
NoTmCall == [n |-> 0, track_id |-> None, target |-> None, some |-> FALSE, is_new |-> FALSE]

IdleSock == [pc |-> "idle", env |-> "none", peer |-> None, room |-> 0,
             newconn |-> {}, reply |-> <<>>]

NoEvent == [type |-> "none", room |-> 0, who |-> "", n |-> 0]

\* EventQueue::new: an empty channel, a fresh TransactionTracker, the
\* processor waiting in recv.
QueueInit ==
    /\ open_rooms = {}
    /\ chan = <<>>
    /\ emitted = 0
    /\ qpc = "idle"
    /\ cur = NoEvent
    /\ now = 0
    /\ wake = 0
    /\ started = 0
    /\ last_tx_times = EmptyMap
    /\ room_created = {}
    /\ done = <<>>
    /\ result = "none"

\* No SubmitExamResult handled yet.
GradeInit ==
    /\ sub_score = None
    /\ sub_total = None
    /\ grade_stored = None
    /\ grade_ack = None
    /\ submits = 0

\* SfuServer::new: every table empty.
\* No student is joining.
IdleWait ==
    [pc |-> "idle", peer |-> None, room |-> 0, retries |-> 0, polls |-> 0,
     slept_ms |-> 0, saw_ready |-> FALSE, room_there |-> FALSE, fresh |-> FALSE,
     ok |-> FALSE, offered |-> FALSE]

\* No socket accepted yet and no handler has run.
ErrInit ==
    /\ ws_state = [s \in Sockets |-> "new"]
    /\ handler_peer = [s \in Sockets |-> None]
    /\ conn_sender = EmptyMap
    /\ pending_sender = EmptyMap
    /\ dead_sockets = {}
    /\ origin = "none"
    /\ op_failed = FALSE
    /\ replies = <<>>

Constructed ==
    /\ rooms = EmptyMap
    /\ peers = EmptyMap
    /\ last = NoCall
    /\ connections = EmptyMap
    /\ tracks = EmptyMap
    /\ peers_with_tracks = [p \in PeerIds |-> 0]
    /\ notif = <<>>
    /\ sock = [s \in Sockets |-> IdleSock]
    /\ envelopes = 0
    /\ IceInit
    /\ RenegInit
    /\ ChainInit
    /\ QueueInit
    /\ GradeInit
    /\ pending_students = {}
    /\ pending_ice_peers = {}
    /\ pending_reneg_peers = {}
    /\ ErrInit
    /\ generated = None
    /\ gen_count = 0
    /\ wait = IdleWait
    /\ tm_call = NoTmCall
    /\ tm_given = {}
    /\ rtp = NoRtp
    /\ rtp_log = <<>>
    /\ pipes = <<>>
    /\ pipe_call = NoPipeCall
    /\ locks = FreeLocks
    /\ rec_lock = [writer |-> 0, readers |-> {}]
    /\ stopper = NoStop
    /\ loops = [p \in PeerIds |-> [pc |-> "read", pushed |-> 0]]
    /\ calls = [c \in LockCalls |-> NoLockCall]

\* The server with recording enabled (RECORDING_ENABLED=true).  Only the
\* handlers of SpecChain read the flag.
Init == Constructed /\ enabled = TRUE

\* The server with recording enabled or not, as the configuration says.
InitChain == Constructed /\ enabled \in BOOLEAN

(***************************************************************************)
(* The registry driven directly through its public methods, with any peer  *)
(* id and any room id as arguments.                                        *)
(***************************************************************************)
RMCreateRoom ==
    \E pid \in PeerIds, rid \in RoomIds :
        LET r == create_room(rooms, peers, rid, pid)
        IN  /\ rooms' = r.rooms
            /\ peers' = r.peers
            /\ last' = [op |-> "create_room", peer |-> pid, to |-> None, room |-> rid,
                        ok |-> r.ok]
            /\ UNCHANGED srvvars

RMJoinRoom ==
    \E sid \in PeerIds, rid \in RoomIds :
        LET r == join_room(rooms, peers, rid, sid)
        IN  /\ rid \in DOMAIN rooms =>
                \/ Contains(rooms[rid].students, sid)
                \/ Len(rooms[rid].students) < MaxStudents
            /\ rooms' = r.rooms
            /\ peers' = r.peers
            /\ last' = [op |-> "join_room", peer |-> sid, to |-> None, room |-> rid,
                        ok |-> r.ok]
            /\ UNCHANGED srvvars

RMRemovePeer ==
    \E pid \in PeerIds :
        LET r == remove_peer(rooms, peers, pid)
        IN  /\ rooms' = r.rooms
            /\ peers' = r.peers
            /\ last' = [op |-> "remove_peer", peer |-> pid, to |-> None, room |-> 0,
                        ok |-> r.found]
            /\ UNCHANGED srvvars

RMShouldForward ==
    \E from \in PeerIds, to \in PeerIds :
        /\ last' = [op |-> "should_forward_track", peer |-> from, to |-> to,
                    room |-> 0, ok |-> should_forward_track(peers, from, to)]
        /\ UNCHANGED <<rooms, peers>>
        /\ UNCHANGED srvvars

NextRM == RMCreateRoom \/ RMJoinRoom \/ RMRemovePeer \/ RMShouldForward

SpecRM == Init /\ [][NextRM]_vars

(***************************************************************************)
(* The server driven by its sockets.  A handler takes one envelope at a    *)
(* time; between the awaits of add_peer_with_role and add_peer other tasks *)
(* run.  sock[s].reply is what the handler sent on its socket while        *)
(* handling the current envelope.                                          *)
(***************************************************************************)
Accept(s) ==
    /\ sock[s].pc = "idle"
    /\ envelopes < MaxEnvelopes
    /\ envelopes' = envelopes + 1

\* handle_create_room: SfuServer::create_room, RoomCreated, then add_peer.
\* generate_room_id may draw any id: one in use (a collision), or a free
\* one, taken to be the least free id since free ids are interchangeable.
HandleCreateRoom(s) ==
    \E pid \in PeerIds, rid \in RoomIds :
        LET r == create_room(rooms, peers, rid, pid)
        IN  /\ Accept(s)
            /\ rid \in DOMAIN rooms \/ \A x \in RoomIds \ DOMAIN rooms : rid <= x
            /\ rooms' = r.rooms
            /\ peers' = r.peers
            /\ sock' = [sock EXCEPT ![s] =
                   IF r.ok
                   THEN [pc |-> "add_peer", env |-> "CreateRoom", peer |-> pid,
                         room |-> rid, newconn |-> {}, reply |-> <<"RoomCreated">>]
                   ELSE [IdleSock EXCEPT !.env = "CreateRoom",
                                         !.reply = <<"error_create_room">>]]
            /\ UNCHANGED <<last, connections, tracks, peers_with_tracks, notif, extvars>>

\* handle_join up to the student-wait loop of add_peer_with_role.
HandleJoin(s) ==
    \E pid \in PeerIds, rid \in RoomIds, role \in {"student", "proctor"} :
        /\ Accept(s)
        /\ sock' = [sock EXCEPT ![s] =
               [pc |-> IF role = "student" THEN "join_room" ELSE "add_peer",
                env |-> "Join", peer |-> pid, room |-> rid, newconn |-> {},
                reply |-> <<>>]]
        /\ UNCHANGED <<rooms, peers, last, connections, tracks, peers_with_tracks, notif, extvars>>

\* add_peer_with_role, student path, once the wait loop is over: join_room,
\* whose error ends the handler with an error envelope; the handler keeps
\* the peer id handle_join stored.
JoinRoom(s) ==
    LET r == join_room(rooms, peers, sock[s].room, sock[s].peer)
    IN  /\ sock[s].pc = "join_room"
        /\ sock[s].room \in DOMAIN rooms =>
              \/ Contains(rooms[sock[s].room].students, sock[s].peer)
              \/ Len(rooms[sock[s].room].students) < MaxStudents
        /\ rooms' = r.rooms
        /\ peers' = r.peers
        /\ sock' = [sock EXCEPT ![s] =
               IF r.ok THEN [@ EXCEPT !.pc = "add_peer"]
               ELSE [IdleSock EXCEPT !.env = "Join", !.peer = sock[s].peer,
                                     !.reply = <<"error_join">>]]
        /\ UNCHANGED <<last, connections, tracks, peers_with_tracks, notif, envelopes, extvars>>

\* add_peer up to the insertion: the duplicate check, the new connection,
\* the snapshot of the existing tracks and their sinks.
AddPeerSeed(s) ==
    /\ sock[s].pc = "add_peer"
    /\ IF sock[s].peer \in DOMAIN connections
       THEN /\ sock' = [sock EXCEPT ![s] =
                   [IdleSock EXCEPT !.env = sock[s].env,
                                    !.reply = IF sock[s].env = "Join"
                                              THEN Append(sock[s].reply, "join_success")
                                              ELSE sock[s].reply]]
            /\ UNCHANGED tracks
       ELSE \E order \in Orders(get_room_peers(peers, sock[s].room)) :
                LET seed == add_existing_tracks(tracks, sock[s].peer,
                                get_tracks_for_peer(peers, tracks, sock[s].peer,
                                                    sock[s].room, order))
                IN  /\ tracks' = seed.tracks
                    /\ sock' = [sock EXCEPT ![s] =
                           [@ EXCEPT !.pc = "insert", !.newconn = seed.attached]]
    /\ UNCHANGED <<rooms, peers, last, connections, peers_with_tracks, notif, envelopes, extvars>>

\* add_peer from the insertion on: the connection enters the table and is
\* sent its Offer; handle_join then reports join_success.
AddPeerInsert(s) ==
    /\ sock[s].pc = "insert"
    /\ connections' = Put(connections, sock[s].peer,
                          [tracks |-> sock[s].newconn])
    /\ sock' = [sock EXCEPT ![s] =
           [IdleSock EXCEPT !.env = sock[s].env,
                            !.reply = IF sock[s].env = "Join"
                                      THEN sock[s].reply \o <<"offer", "join_success">>
                                      ELSE Append(sock[s].reply, "offer")]]
    /\ UNCHANGED <<rooms, peers, last, tracks, peers_with_tracks, notif, envelopes, extvars>>

\* handle_leave: SfuServer::remove_peer of the id the envelope names.  A
\* Leave naming an id the server does not know changes nothing and is not
\* drawn.
HandleLeave(s) ==
    \E pid \in PeerIds :
        LET r == server_remove_peer(rooms, peers, connections, tracks, pid)
        IN  /\ Accept(s)
            /\ \/ pid \in DOMAIN peers \cup DOMAIN connections
               \/ \E t \in DOMAIN tracks : tracks[t].source_peer_id = pid
            /\ rooms' = r.rooms
            /\ peers' = r.peers
            /\ connections' = r.connections
            /\ tracks' = r.tracks
            /\ sock' = [sock EXCEPT ![s] =
                   [IdleSock EXCEPT !.env = "Leave"]]
            /\ UNCHANGED <<last, peers_with_tracks, notif, extvars>>

\* on_track of a connected peer: the track is registered in the Track
\* Manager and the server is notified through the channel.
OnTrack ==
    \E pid \in DOMAIN connections, kind \in TrackKinds :
        LET track_id == TrackId(pid, kind, OrigTrackId)
        IN  /\ track_id \notin DOMAIN tracks
            /\ SumCounts(peers_with_tracks, PeerIds) + Len(notif) < MaxTracks
            /\ tracks' = add_track(tracks, track_id, pid)
            /\ notif' = Append(notif, <<pid, track_id>>)
            /\ UNCHANGED <<rooms, peers, last, connections, peers_with_tracks, sock, envelopes, extvars>>

\* The track-notification processor takes the oldest notification.
HandleTrackReceived ==
    /\ notif # <<>>
    /\ LET peer_id == Head(notif)[1]
           track_id == Head(notif)[2]
           r == handle_track_received(peers, connections, tracks, peer_id, track_id)
       IN  /\ peers_with_tracks' = [peers_with_tracks EXCEPT ![peer_id] = @ + 1]
           /\ connections' = r.connections
           /\ tracks' = r.tracks
    /\ notif' = Tail(notif)
    /\ UNCHANGED <<rooms, peers, last, sock, envelopes, extvars>>

Next ==
    \/ \E s \in Sockets : HandleCreateRoom(s)
    \/ \E s \in Sockets : HandleJoin(s)
    \/ \E s \in Sockets : JoinRoom(s)
    \/ \E s \in Sockets : AddPeerSeed(s)
    \/ \E s \in Sockets : AddPeerInsert(s)
    \/ \E s \in Sockets : HandleLeave(s)
    \/ OnTrack
    \/ HandleTrackReceived

Spec == Init /\ [][Next]_vars

(***************************************************************************)
(* ICE trickle.  IceCandidate and Answer envelopes name the peer they are  *)
(* for, so any socket may deliver them; each handler runs to its next      *)
(* await and other handlers run in between.  Candidates are numbered in    *)
(* the order the server receives them.                                     *)
(***************************************************************************)
\* handle_ice_candidate up to the test of remote_description().
IceReceive(s) ==
    /\ iceh[s].pc = "idle"
    /\ ice_count < MaxCandidates
    /\ ice_count' = ice_count + 1
    /\ iceh' = [iceh EXCEPT ![s] =
           [pc |-> IF remote_description THEN "add" ELSE "queue",
            cand |-> ice_count + 1, todo |-> <<>>]]
    /\ UNCHANGED <<remote_description, pending_ice, added_ice, queued_ice, answer_count, nonice>>

\* handle_ice_candidate, no remote description: push on the pending queue.
IceQueue(s) ==
    /\ iceh[s].pc = "queue"
    /\ pending_ice' = Append(pending_ice, iceh[s].cand)
    /\ queued_ice' = queued_ice \cup {iceh[s].cand}
    /\ iceh' = [iceh EXCEPT ![s] = IdleIce]
    /\ UNCHANGED <<remote_description, added_ice, ice_count, answer_count, nonice>>

\* handle_ice_candidate, remote description set: add_ice_candidate.
IceAdd(s) ==
    /\ iceh[s].pc = "add"
    /\ added_ice' = Append(added_ice, iceh[s].cand)
    /\ iceh' = [iceh EXCEPT ![s] = IdleIce]
    /\ UNCHANGED <<remote_description, pending_ice, queued_ice, ice_count, answer_count, nonice>>

\* handle_answer up to set_remote_description.
AnswerApply(s) ==
    /\ iceh[s].pc = "idle"
    /\ answer_count < MaxAnswers
    /\ answer_count' = answer_count + 1
    /\ remote_description' = TRUE
    /\ iceh' = [iceh EXCEPT ![s] = [pc |-> "flush", cand |-> 0, todo |-> <<>>]]
    /\ UNCHANGED <<pending_ice, added_ice, queued_ice, ice_count, nonice>>

\* flush_pending_ice_candidates: the queue is taken out of the map.
FlushTake(s) ==
    /\ iceh[s].pc = "flush"
    /\ pending_ice' = <<>>
    /\ iceh' = [iceh EXCEPT ![s] =
           IF pending_ice = <<>> THEN IdleIce
           ELSE [pc |-> "flushing", cand |-> 0, todo |-> pending_ice]]
    /\ UNCHANGED <<remote_description, added_ice, queued_ice, ice_count, answer_count, nonice>>

\* flush_pending_ice_candidates: add_ice_candidate of the next taken one.
FlushAdd(s) ==
    /\ iceh[s].pc = "flushing"
    /\ added_ice' = Append(added_ice, Head(iceh[s].todo))
    /\ iceh' = [iceh EXCEPT ![s] =
           IF Tail(iceh[s].todo) = <<>> THEN IdleIce
           ELSE [@ EXCEPT !.todo = Tail(@)]]
    /\ UNCHANGED <<remote_description, pending_ice, queued_ice, ice_count, answer_count, nonice>>

NextIce ==
    \/ \E s \in Sockets : IceReceive(s)
    \/ \E s \in Sockets : IceQueue(s)
    \/ \E s \in Sockets : IceAdd(s)
    \/ \E s \in Sockets : AnswerApply(s)
    \/ \E s \in Sockets : FlushTake(s)
    \/ \E s \in Sockets : FlushAdd(s)

SpecIce == Init /\ [][NextIce]_vars

(***************************************************************************)
(* Offers to one target peer.  add_peer inserts the connection and sends   *)
(* the initial Offer; handle_track_received adds a track and schedules a   *)
(* renegotiation unless one is pending; the spawned task sleeps 150 ms and *)
(* runs perform_renegotiation_static.  Each task runs to its next await.   *)
(***************************************************************************)
\* Sequence seq without its i-th element.
RemoveAt(seq, i) == SubSeq(seq, 1, i - 1) \o SubSeq(seq, i + 1, Len(seq))

\* add_peer: the connection enters the table; create_and_send_offer starts.
RenegInsert ==
    /\ conn = 0
    /\ conn_count < MaxConns
    /\ conn_count' = conn_count + 1
    /\ conn' = conn_count + 1
    /\ signaling_state' = "stable"
    /\ pc_tracks' = 0
    /\ attempts' = Append(attempts, [kind |-> "offer", pc |-> "lookup", gen |-> 0,
                                     due |-> 0, covers |-> 0])
    /\ UNCHANGED <<add_count, pending_renegotiations, timers, sent, nonreneg>>

\* SfuServer::remove_peer: the connection leaves the table and the pending
\* renegotiation flag of the peer id is cleared.
RenegRemove ==
    /\ conn # 0
    /\ conn' = 0
    /\ pending_renegotiations' = FALSE
    /\ UNCHANGED <<conn_count, signaling_state, pc_tracks, add_count, timers,
                   attempts, sent, nonreneg>>

\* handle_track_received for this target: add_track on its peer connection,
\* then the debounce flag; a task is spawned when the flag was not set.
TrackAdded ==
    /\ conn # 0
    /\ add_count < MaxAdds
    /\ add_count' = add_count + 1
    /\ pc_tracks' = pc_tracks + 1
    /\ timers' = IF pending_renegotiations THEN timers ELSE timers + 1
    /\ pending_renegotiations' = TRUE
    /\ UNCHANGED <<conn, conn_count, signaling_state, attempts, sent, nonreneg>>

\* The sleep of a spawned task ends: perform_renegotiation_static with
\* retry_count 0 clears the flag.
TimerFire ==
    /\ timers > 0
    /\ timers' = timers - 1
    /\ pending_renegotiations' = FALSE
    /\ attempts' = Append(attempts, [kind |-> "renegotiate", pc |-> "lookup", gen |-> 0,
                                     due |-> pc_tracks, covers |-> 0])
    /\ UNCHANGED <<conn, conn_count, signaling_state, pc_tracks, add_count, sent,
                   nonreneg>>

\* The task looks the connection up by peer id; a renegotiation goes on only
\* when signaling_state() is Stable, and is not retried otherwise.
OfferCheck ==
    \E i \in 1..Len(attempts) :
        /\ attempts[i].pc = "lookup"
        /\ attempts' =
               IF conn = 0 \/ (attempts[i].kind = "renegotiate" /\ signaling_state # "stable")
               THEN RemoveAt(attempts, i)
               ELSE [attempts EXCEPT ![i].pc = "checked", ![i].gen = conn]
        /\ UNCHANGED <<conn, conn_count, signaling_state, pc_tracks, add_count,
                       pending_renegotiations, timers, sent, nonreneg>>

\* create_offer: the offer covers the tracks the peer connection has now.  On
\* a connection that was closed meanwhile the task ends with an error.
OfferCreate ==
    \E i \in 1..Len(attempts) :
        /\ attempts[i].pc = "checked"
        /\ attempts' =
               IF attempts[i].gen # conn THEN RemoveAt(attempts, i)
               ELSE [attempts EXCEPT ![i].pc = "created", ![i].covers = pc_tracks]
        /\ UNCHANGED <<conn, conn_count, signaling_state, pc_tracks, add_count,
                       pending_renegotiations, timers, sent, nonreneg>>

\* set_local_description, then the envelope is sent to the peer.  With an
\* earlier local offer still unanswered the peer connection may accept the
\* new offer or refuse it.
OfferSetLocal ==
    \E i \in 1..Len(attempts), accepted \in BOOLEAN :
        /\ attempts[i].pc = "created"
        /\ signaling_state = "stable" => accepted
        /\ attempts' = RemoveAt(attempts, i)
        /\ IF attempts[i].gen = conn /\ accepted
           THEN /\ signaling_state' = "have-local-offer"
                /\ sent' = Append(sent, [kind |-> attempts[i].kind,
                                         due |-> attempts[i].due,
                                         covers |-> attempts[i].covers,
                                         unanswered |-> signaling_state # "stable"])
           ELSE UNCHANGED <<signaling_state, sent>>
        /\ UNCHANGED <<conn, conn_count, pc_tracks, add_count,
                       pending_renegotiations, timers, nonreneg>>

\* The peer's Answer is applied: set_remote_description.
AnswerArrives ==
    /\ conn # 0
    /\ signaling_state = "have-local-offer"
    /\ signaling_state' = "stable"
    /\ UNCHANGED <<conn, conn_count, pc_tracks, add_count, pending_renegotiations,
                   timers, attempts, sent, nonreneg>>

NextReneg ==
    \/ RenegInsert
    \/ RenegRemove
    \/ TrackAdded
    \/ TimerFire
    \/ OfferCheck
    \/ OfferCreate
    \/ OfferSetLocal
    \/ AnswerArrives

SpecReneg == Init /\ [][NextReneg]_vars

\* The spawned tasks are scheduled: a sleep ends, and a task that has
\* started takes its next step.  The peer answers every offer it is sent.
\* Tracks, joins and removals come when they come.
SpecRenegFair ==
    /\ SpecReneg
    /\ WF_vars(TimerFire)
    /\ WF_vars(OfferCheck)
    /\ WF_vars(OfferCreate)
    /\ WF_vars(OfferSetLocal)
    /\ WF_vars(AnswerArrives)

(***************************************************************************)
(* Domain events.  Each handler below runs whole; log is what it emitted   *)
(* to the event queue ("event"), sent on a peer's socket ("send") and the  *)
(* connections it removed from the table ("close"), in program order.      *)
(***************************************************************************)
Event(type, room_id, peer_id, arg) ==
    [kind |-> "event", type |-> type, room |-> room_id, peer |-> peer_id, arg |-> arg]

Send(type, to, room_id) ==
    [kind |-> "send", type |-> type, room |-> room_id, peer |-> to, arg |-> ""]

Close(peer_id) ==
    [kind |-> "close", type |-> "", room |-> 0, peer |-> peer_id, arg |-> ""]

\* The peers of seq that have a stored wallet, in the order of seq.
WithWallet(wallets, seq) == SelectSeq(seq, LAMBDA x : x \in wallets)

\* The entries emitted only for a peer id with a stored wallet.
IfWallet(wallets, peer_id, entries) == IF peer_id \in wallets THEN entries ELSE <<>>

\* RecordingManager::start_recording: Ok without a recording when disabled,
\* Err when the key is already recording.
start_recording(recs, on, room_id, peer_id) ==
    IF ~on THEN [ok |-> TRUE, recordings |-> recs]
    ELSE IF <<room_id, peer_id>> \in recs THEN [ok |-> FALSE, recordings |-> recs]
    ELSE [ok |-> TRUE, recordings |-> recs \cup {<<room_id, peer_id>>}]

\* RecordingManager::stop_recording: Err when the key has no recording.
stop_recording(recs, room_id, peer_id) ==
    [ok |-> <<room_id, peer_id>> \in recs, recordings |-> recs \ {<<room_id, peer_id>>}]

\* SfuServer::remove_peer, Proctor branch: what it emits, given the peers
\* whose recordings stop_all_recordings_in_room stopped (in the order the
\* map handed them out) and the students get_room_peers still returns.
proctor_left_log(wallets, room_id, peer_id, stopped, students_to_close) ==
    [i \in 1..Len(WithWallet(wallets, stopped)) |->
        Event("RecordingStopped", room_id, WithWallet(wallets, stopped)[i], "")]
    \o IfWallet(wallets, peer_id, <<Event("ParticipantLeft", room_id, peer_id, "Normal")>>)
    \o [i \in 1..Len(WithWallet(wallets, students_to_close)) |->
           Event("ParticipantLeft", room_id, WithWallet(wallets, students_to_close)[i],
                 "RoomClosed")]
    \o <<Event("RoomClosed", room_id, None, "ProctorLeft")>>

\* SfuServer::remove_peer, Student branch: CreateExamResult and
\* RecordingStopped only when stop_recording returned Ok.
student_left_log(wallets, grades, room_id, peer_id, stop_ok, proctor_conn) ==
    (IF stop_ok
     THEN IfWallet(wallets, peer_id,
              <<Event("CreateExamResult", room_id, peer_id,
                      IF peer_id \in DOMAIN grades THEN grades[peer_id] ELSE 0),
                Event("RecordingStopped", room_id, peer_id, "")>>)
     ELSE <<>>)
    \o IfWallet(wallets, peer_id, <<Event("ParticipantLeft", room_id, peer_id, "Normal")>>)
    \o (IF proctor_conn # None THEN <<Send("ParticipantLeft", proctor_conn, room_id)>> ELSE <<>>)

\* SfuServer::remove_peer with everything it emits, sends and closes.  The
\* wallet of the removed peer is purged last, when the registry knew the peer.
\* r is what server_remove_peer left of the registry and the two tables.
chain_remove_peer(r, peer_id, stopped) ==
    LET students_to_close ==
            IF r.found /\ r.role = "Proctor"
            THEN get_room_peers(r.peers, r.room_id) \ {peer_id}
            ELSE {}
        closing == CHOOSE o \in Orders(students_to_close) : TRUE
        st == stop_recording(recordings, r.room_id, peer_id)
        proctor_id == get_room_proctor(r.rooms, r.room_id)
    IN  [rooms |-> r.rooms, peers |-> r.peers, connections |-> r.connections,
         tracks |-> r.tracks,
         wallets |-> IF r.found THEN peer_wallets \ ({peer_id} \cup students_to_close)
                     ELSE peer_wallets,
         recordings |->
             IF ~r.found THEN recordings
             ELSE IF r.role = "Proctor"
             THEN { k \in recordings : k[1] # r.room_id }
             ELSE st.recordings,
         grades |-> IF r.found /\ r.role # "Proctor" /\ peer_id \in DOMAIN peer_exam_grades
                    THEN Del(peer_exam_grades, peer_id)
                    ELSE peer_exam_grades,
         log |->
             (IF peer_id \in DOMAIN connections THEN <<Close(peer_id)>> ELSE <<>>)
             \o (IF ~r.found THEN <<>>
                 ELSE IF r.role = "Proctor"
                 THEN proctor_left_log(peer_wallets, r.room_id, peer_id, stopped, closing)
                      \o [i \in 1..Len(closing) |-> Close(closing[i])]
                 ELSE student_left_log(peer_wallets, peer_exam_grades, r.room_id, peer_id,
                          st.ok,
                          IF proctor_id \in DOMAIN r.connections THEN proctor_id ELSE None))]

\* The peers whose recording stop_all_recordings_in_room would stop when
\* peer_id is removed as the proctor of its room.
StoppedBy(peer_id) ==
    IF peer_id \in DOMAIN peers /\ peers[peer_id].role = "Proctor"
    THEN { x \in PeerIds : <<peers[peer_id].room_id, x>> \in recordings }
    ELSE {}

ChainAccept ==
    /\ ev_count < MaxChainEnvelopes
    /\ ev_count' = ev_count + 1

\* CreateRoom: SfuServer::create_room, then add_peer.
ChainCreateRoom ==
    \E pid \in PeerIds, rid \in RoomIds, wallet \in BOOLEAN :
        LET r == create_room(rooms, peers, rid, pid)
            rec == start_recording(recordings, enabled, rid, pid)
        IN  /\ ChainAccept
            /\ rid \in DOMAIN rooms \/ \A x \in RoomIds \ DOMAIN rooms : rid <= x
            /\ rooms' = r.rooms
            /\ peers' = r.peers
            /\ lastev' = [op |-> "CreateRoom", peer |-> pid, room |-> rid]
            /\ IF r.ok
               THEN /\ peer_wallets' = IF wallet THEN peer_wallets \cup {pid} ELSE peer_wallets
                    /\ recordings' = rec.recordings
                    /\ connections' = IF pid \in DOMAIN connections THEN connections
                                      ELSE Put(connections, pid, [tracks |-> {}])
                    /\ log' = (IF wallet THEN <<Event("RoomCreated", rid, pid, "")>> ELSE <<>>)
                              \o (IF rec.ok /\ wallet
                                  THEN <<Event("RecordingStarted", rid, pid, "")>> ELSE <<>>)
                              \o <<Send("RoomCreated", pid, rid)>>
                              \o (IF pid \in DOMAIN connections THEN <<>>
                                  ELSE <<Send("offer", pid, rid)>>)
               ELSE /\ log' = <<Send("error", pid, rid)>>
                    /\ UNCHANGED <<peer_wallets, recordings, connections>>
            /\ UNCHANGED <<last, tracks, peers_with_tracks, notif, sock, envelopes,
                           enabled, peer_exam_grades, nonchain>>
            /\ UNCHANGED closevars

\* Join as a student: add_peer_with_role, then add_peer.  The wallet is
\* stored before join_room is called.
ChainJoin ==
    \E pid \in PeerIds, rid \in RoomIds, wallet \in BOOLEAN :
        LET r == join_room(rooms, peers, rid, pid)
            rec == start_recording(recordings, enabled, rid, pid)
        IN  /\ ChainAccept
            /\ rid \in DOMAIN rooms =>
                  \/ Contains(rooms[rid].students, pid)
                  \/ Len(rooms[rid].students) < MaxStudents
            /\ rooms' = r.rooms
            /\ peers' = r.peers
            /\ lastev' = [op |-> "Join", peer |-> pid, room |-> rid]
            /\ peer_wallets' = IF wallet THEN peer_wallets \cup {pid} ELSE peer_wallets
            /\ IF r.ok
               THEN /\ recordings' = rec.recordings
                    /\ connections' = IF pid \in DOMAIN connections THEN connections
                                      ELSE Put(connections, pid, [tracks |-> {}])
                    /\ log' = (IF wallet THEN <<Event("ParticipantJoined", rid, pid, "")>>
                               ELSE <<>>)
                              \o (IF rec.ok /\ wallet
                                  THEN <<Event("RecordingStarted", rid, pid, "")>> ELSE <<>>)
                              \o (IF pid \in DOMAIN connections THEN <<>>
                                  ELSE <<Send("offer", pid, rid)>>)
                              \o <<Send("join_success", pid, rid)>>
               ELSE /\ log' = <<Send("error", pid, rid)>>
                    /\ UNCHANGED <<recordings, connections>>
            /\ UNCHANGED <<last, tracks, peers_with_tracks, notif, sock, envelopes,
                           enabled, peer_exam_grades, nonchain>>
            /\ pending_students' = pending_students \ {pid}
            /\ UNCHANGED <<pending_ice_peers, pending_reneg_peers>>

\* SubmitExamResult: the grade is stored under the peer id of the envelope.
ChainSubmitExamResult ==
    \E pid \in DOMAIN peers, grade \in Grades :
        /\ ChainAccept
        /\ peer_exam_grades' = Put(peer_exam_grades, pid, grade)
        /\ lastev' = [op |-> "SubmitExamResult", peer |-> pid, room |-> peers[pid].room_id]
        /\ log' = <<Send("ExamResultSubmitted", pid, peers[pid].room_id)>>
        /\ UNCHANGED <<basevars, enabled, peer_wallets, recordings, nonchain>>
        /\ UNCHANGED closevars

\* StopRecording{room_id, peer_id}.
ChainStopRecording ==
    \E k \in recordings :
        /\ ChainAccept
        /\ recordings' = stop_recording(recordings, k[1], k[2]).recordings
        /\ lastev' = [op |-> "StopRecording", peer |-> k[2], room |-> k[1]]
        /\ log' = <<Send("RecordingStopped", k[2], k[1])>>
        /\ UNCHANGED <<basevars, enabled, peer_wallets, peer_exam_grades, nonchain>>
        /\ UNCHANGED closevars

\* Leave, or the cleanup of a closed socket: SfuServer::remove_peer.
ChainRemovePeer ==
    \E pid \in DOMAIN peers \cup DOMAIN connections :
        \E stopped \in Orders(StoppedBy(pid)) :
            \E r \in { chain_remove_peer(
                          server_remove_peer(rooms, peers, connections, tracks, pid),
                          pid, stopped) } :
                /\ ChainAccept
                /\ rooms' = r.rooms
                /\ peers' = r.peers
                /\ connections' = r.connections
                /\ tracks' = r.tracks
                /\ peer_wallets' = r.wallets
                /\ recordings' = r.recordings
                /\ peer_exam_grades' = r.grades
                /\ log' = r.log
                /\ lastev' = [op |-> "Leave", peer |-> pid, room |-> 0]
                /\ UNCHANGED <<last, peers_with_tracks, notif, sock, envelopes, enabled,
                               nonchain>>
                /\ pending_ice_peers' = pending_ice_peers \ {pid}
                /\ pending_reneg_peers' = pending_reneg_peers \ {pid}
                /\ UNCHANGED pending_students

\* KickParticipant{room_id, peer_id}: send_kick_notification, remove_peer,
\* then emit_participant_kicked, which reads the wallets remove_peer left.
ChainKick ==
    \E pid \in DOMAIN peers \cup DOMAIN connections, rid \in DOMAIN rooms :
        \E stopped \in Orders(StoppedBy(pid)) :
            \E r \in { chain_remove_peer(
                          server_remove_peer(rooms, peers, connections, tracks, pid),
                          pid, stopped) } :
            LET proctor_id == get_room_proctor(r.rooms, rid)
            IN  /\ ChainAccept
                /\ rooms' = r.rooms
                /\ peers' = r.peers
                /\ connections' = r.connections
                /\ tracks' = r.tracks
                /\ peer_wallets' = r.wallets
                /\ recordings' = r.recordings
                /\ peer_exam_grades' = r.grades
                /\ log' = (IF pid \in DOMAIN connections
                           THEN <<Send("ParticipantKicked", pid, rid)>> ELSE <<>>)
                          \o r.log
                          \o (IF proctor_id \in r.wallets /\ pid \in r.wallets
                              THEN <<Event("ParticipantKicked", rid, pid, "")>> ELSE <<>>)
                /\ lastev' = [op |-> "KickParticipant", peer |-> pid, room |-> rid]
                /\ UNCHANGED <<last, peers_with_tracks, notif, sock, envelopes, enabled,
                               nonchain>>
                /\ pending_ice_peers' = pending_ice_peers \ {pid}
                /\ pending_reneg_peers' = pending_reneg_peers \ {pid}
                /\ UNCHANGED pending_students

NextChain ==
    \/ ChainCreateRoom
    \/ ChainJoin
    \/ ChainSubmitExamResult
    \/ ChainStopRecording
    \/ ChainRemovePeer
    \/ ChainKick

SpecChain == InitChain /\ [][NextChain]_vars

(***************************************************************************)
(* Socket closure.  The handlers above with the tables a removal has to    *)
(* clear: pending students, pending ICE candidates, pending renegotiations *)
(* and the counter of inbound tracks.                                      *)
(***************************************************************************)
CloseAccept ==
    /\ ev_count < MaxCloseEnvelopes
    /\ ChainAccept

\* CreateRoom, Join and SubmitExamResult, as above.
CloseCreateRoom == ev_count < MaxCloseEnvelopes /\ ChainCreateRoom

CloseJoin == ev_count < MaxCloseEnvelopes /\ ChainJoin

CloseSubmitExamResult == ev_count < MaxCloseEnvelopes /\ ChainSubmitExamResult

\* JoinRequest: track_pending_student registers the requesting student.
CloseJoinRequest ==
    \E pid \in PeerIds :
        /\ CloseAccept
        /\ pending_students' = pending_students \cup {pid}
        /\ lastev' = [op |-> "JoinRequest", peer |-> pid, room |-> 0]
        /\ log' = <<>>
        /\ UNCHANGED <<basevars, enabled, peer_wallets, recordings, peer_exam_grades,
                       pending_ice_peers, pending_reneg_peers, nonchain>>

\* IceCandidate for a connected peer whose connection has no remote
\* description yet: the candidate is queued under the peer id.
CloseIceCandidate ==
    \E pid \in DOMAIN connections :
        /\ CloseAccept
        /\ pending_ice_peers' = pending_ice_peers \cup {pid}
        /\ lastev' = [op |-> "IceCandidate", peer |-> pid, room |-> 0]
        /\ log' = <<>>
        /\ UNCHANGED <<basevars, enabled, peer_wallets, recordings, peer_exam_grades,
                       pending_students, pending_reneg_peers, nonchain>>

\* A track of a connected peer arrives and handle_track_received runs: the
\* counter of the source goes up, and every target that got a sink has its
\* renegotiation flag set.
CloseTrack ==
    \E pid \in DOMAIN connections, kind \in TrackKinds :
        \E r \in { handle_track_received(peers, connections,
                       add_track(tracks, TrackId(pid, kind, OrigTrackId), pid),
                       pid, TrackId(pid, kind, OrigTrackId)) } :
            /\ TrackId(pid, kind, OrigTrackId) \notin DOMAIN tracks
            /\ SumCounts(peers_with_tracks, PeerIds) < MaxTracks
            /\ peers_with_tracks' = [peers_with_tracks EXCEPT ![pid] = @ + 1]
            /\ connections' = r.connections
            /\ tracks' = r.tracks
            /\ pending_reneg_peers' = pending_reneg_peers \cup
                   { t \in DOMAIN connections :
                       r.connections[t].tracks # connections[t].tracks }
            /\ UNCHANGED <<rooms, peers, last, notif, sock, envelopes, chainvars,
                           pending_students, pending_ice_peers, nonchain>>

\* The renegotiation task of a target wakes and clears its flag.
CloseRenegFire ==
    \E pid \in pending_reneg_peers :
        /\ pending_reneg_peers' = pending_reneg_peers \ {pid}
        /\ UNCHANGED <<basevars, chainvars, pending_students, pending_ice_peers,
                       nonchain>>

\* The socket that joined pid closes: cleanup calls remove_peer and
\* remove_pending_student with the handler's peer id.
Cleanup ==
    \E pid \in DOMAIN connections :
        \E stopped \in Orders(StoppedBy(pid)) :
            \E r \in { chain_remove_peer(
                          server_remove_peer(rooms, peers, connections, tracks, pid),
                          pid, stopped) } :
                /\ CloseAccept
                /\ rooms' = r.rooms
                /\ peers' = r.peers
                /\ connections' = r.connections
                /\ tracks' = r.tracks
                /\ peer_wallets' = r.wallets
                /\ recordings' = r.recordings
                /\ peer_exam_grades' = r.grades
                /\ log' = r.log
                /\ lastev' = [op |-> "Close", peer |-> pid, room |-> 0]
                /\ pending_ice_peers' = pending_ice_peers \ {pid}
                /\ pending_reneg_peers' = pending_reneg_peers \ {pid}
                /\ pending_students' = pending_students \ {pid}
                /\ UNCHANGED <<last, peers_with_tracks, notif, sock, envelopes, enabled,
                               nonchain>>

NextClose ==
    \/ CloseCreateRoom
    \/ CloseJoin
    \/ CloseSubmitExamResult
    \/ CloseJoinRequest
    \/ CloseIceCandidate
    \/ CloseTrack
    \/ CloseRenegFire
    \/ Cleanup

SpecClose == Init /\ [][NextClose]_vars

(***************************************************************************)
(* Error paths of the signaling handlers.  handle_sfu_websocket takes the  *)
(* envelopes of one socket one after the other; a handler calls the server *)
(* and answers on its own socket.  A send on a peer's channel fails once   *)
(* the writer task of that peer's socket has ended.  No track is published *)
(* here, and creating the peer connection itself is taken to succeed.      *)
(***************************************************************************)
MaxErrEnvelopes == 3

\* What no handler of this section changes.
nonerr == <<last, tracks, peers_with_tracks, notif, sock, envelopes, icevars,
            renegvars, queuevars, gradevars, enabled, log, pending_ice_peers,
            pending_reneg_peers, idvars, wait, tmvars, rtpvars, pipevars, lockvars, recvars>>

\* SfuConnection::send_message on the connection of peer_id: Err when the
\* receiver of the channel is gone.
send_message(senders, dead, peer_id) == senders[peer_id] \notin dead

\* send_kick_notification, send_verification_request and
\* send_verification_result: Ok without a connection, else the send's result.
notify(conns, senders, dead, peer_id) ==
    peer_id \in DOMAIN conns => send_message(senders, dead, peer_id)

\* forward_join_request: Err without a proctor that has a connection.
forward_join_request(rms, conns, senders, dead, room_id) ==
    LET proctor_id == get_room_proctor(rms, room_id)
    IN  /\ proctor_id # None
        /\ proctor_id \in DOMAIN conns
        /\ send_message(senders, dead, proctor_id)

\* send_join_response: on the student's connection if there is one, else on
\* the sender kept with the pending student, else Err.
send_join_response(conns, senders, pending, dead, student_peer_id) ==
    IF student_peer_id \in DOMAIN conns
    THEN send_message(senders, dead, student_peer_id)
    ELSE /\ student_peer_id \in DOMAIN pending
         /\ pending[student_peer_id] \notin dead

\* The senders of the connections that are left.
KeepSenders(senders, conns) == [x \in DOMAIN senders \cap DOMAIN conns |-> senders[x]]

\* handle_websocket_message: the handler has run; the function returns
\* Ok(()) whatever the handler did, so the receive loop goes on.  The room
\* id is kept only for the envelopes whose server operation reads it.
ErrHandled(s, op, peer_id, room_id, failed, answered) ==
    /\ ws_state[s] = "open"
    /\ ev_count < MaxErrEnvelopes
    /\ ev_count' = ev_count + 1
    /\ lastev' = [op |-> op, peer |-> peer_id, room |-> room_id]
    /\ origin' = s
    /\ op_failed' = failed
    /\ replies' = answered
    /\ UNCHANGED <<ws_state, dead_sockets, nonerr>>

\* warp upgrades the request: handle_sfu_websocket starts.
ErrAccept(s) ==
    /\ ws_state[s] = "new"
    /\ ws_state' = [ws_state EXCEPT ![s] = "open"]
    /\ UNCHANGED <<basevars, icevars, renegvars, chainvars, queuevars, gradevars,
                   closevars, idvars, wait, tmvars, rtpvars, pipevars, lockvars, recvars, handler_peer, conn_sender, pending_sender,
                   dead_sockets, origin, op_failed, replies>>

\* The removal SfuServer::remove_peer makes, with the recordings it stops.
err_remove_peer(peer_id) ==
    chain_remove_peer(server_remove_peer(rooms, peers, connections, tracks, peer_id),
                      peer_id, CHOOSE o \in Orders(StoppedBy(peer_id)) : TRUE)

\* The tables after err_remove_peer returned r.
ErrRemoved(r) ==
    /\ rooms' = r.rooms
    /\ peers' = r.peers
    /\ connections' = r.connections
    /\ conn_sender' = KeepSenders(conn_sender, r.connections)
    /\ recordings' = r.recordings
    /\ peer_wallets' = r.wallets
    /\ peer_exam_grades' = r.grades

ErrCreateRoom(s) ==
    \E pid \in PeerIds, rid \in RoomIds :
        LET r == create_room(rooms, peers, rid, pid)
            rec == start_recording(recordings, enabled, rid, pid)
            fresh == pid \notin DOMAIN connections
        IN  /\ rid \in DOMAIN rooms \/ \A x \in RoomIds \ DOMAIN rooms : rid <= x
            /\ rooms' = r.rooms
            /\ peers' = r.peers
            /\ IF r.ok
               THEN /\ handler_peer' = [handler_peer EXCEPT ![s] = pid]
                    /\ recordings' = rec.recordings
                    /\ connections' = IF fresh THEN Put(connections, pid, [tracks |-> {}])
                                      ELSE connections
                    /\ conn_sender' = IF fresh THEN Put(conn_sender, pid, s)
                                      ELSE conn_sender
               ELSE UNCHANGED <<handler_peer, recordings, connections, conn_sender>>
            /\ ErrHandled(s, "CreateRoom", pid, rid, ~r.ok,
                          IF ~r.ok THEN <<"error">>
                          ELSE IF fresh THEN <<"RoomCreated", "offer">>
                          ELSE <<"RoomCreated">>)
            /\ UNCHANGED <<peer_wallets, peer_exam_grades, pending_students,
                           pending_sender>>

ErrJoin(s) ==
    \E pid \in PeerIds, rid \in RoomIds :
        LET r == join_room(rooms, peers, rid, pid)
            rec == start_recording(recordings, enabled, rid, pid)
            fresh == pid \notin DOMAIN connections
        IN  /\ rid \in DOMAIN rooms =>
                  \/ Contains(rooms[rid].students, pid)
                  \/ Len(rooms[rid].students) < MaxStudents
            /\ handler_peer' = [handler_peer EXCEPT ![s] = pid]
            /\ pending_sender' = Del(pending_sender, pid)
            /\ pending_students' = pending_students \ {pid}
            /\ rooms' = r.rooms
            /\ peers' = r.peers
            /\ IF r.ok
               THEN /\ recordings' = rec.recordings
                    /\ connections' = IF fresh THEN Put(connections, pid, [tracks |-> {}])
                                      ELSE connections
                    /\ conn_sender' = IF fresh THEN Put(conn_sender, pid, s)
                                      ELSE conn_sender
               ELSE UNCHANGED <<recordings, connections, conn_sender>>
            /\ ErrHandled(s, "Join", pid, rid, ~r.ok,
                          IF ~r.ok THEN <<"error">>
                          ELSE IF fresh THEN <<"offer", "join_success">>
                          ELSE <<"join_success">>)
            /\ UNCHANGED <<peer_wallets, peer_exam_grades>>

ErrJoinRequest(s) ==
    \E pid \in PeerIds, rid \in RoomIds :
        LET ok == forward_join_request(rooms, connections, conn_sender, dead_sockets, rid)
        IN  /\ handler_peer' = [handler_peer EXCEPT ![s] = pid]
            /\ pending_sender' = Put(pending_sender, pid, s)
            /\ pending_students' = pending_students \cup {pid}
            /\ ErrHandled(s, "JoinRequest", pid, rid, ~ok,
                          IF ok THEN <<"join_request_sent">> ELSE <<"error">>)
            /\ UNCHANGED <<rooms, peers, connections, conn_sender, recordings,
                           peer_wallets, peer_exam_grades>>

ErrJoinResponse(s) ==
    \E requester \in PeerIds :
        LET ok == send_join_response(connections, conn_sender, pending_sender,
                                     dead_sockets, requester)
        IN  /\ ErrHandled(s, "JoinResponse", requester, 0, ~ok,
                          IF ok THEN <<>> ELSE <<"error">>)
            /\ UNCHANGED <<rooms, peers, connections, conn_sender, recordings,
                           peer_wallets, peer_exam_grades, handler_peer,
                           pending_students, pending_sender>>

\* Leave: SfuServer::remove_peer has no failing step, and its Err would
\* only be logged.
ErrLeave(s) ==
    \E pid \in PeerIds :
        /\ \E r \in { err_remove_peer(pid) } : ErrRemoved(r)
        /\ handler_peer' = [handler_peer EXCEPT ![s] = None]
        /\ ErrHandled(s, "Leave", pid, 0, FALSE, <<>>)
        /\ UNCHANGED <<pending_students, pending_sender>>

\* Answer: Err when the peer has a connection and the SDP is not accepted.
ErrAnswer(s) ==
    \E pid \in PeerIds, bad_sdp \in BOOLEAN :
        LET failed == pid \in DOMAIN connections /\ bad_sdp
        IN  /\ ErrHandled(s, "Answer", pid, 0, failed,
                          IF failed THEN <<"error">> ELSE <<>>)
            /\ UNCHANGED <<rooms, peers, connections, conn_sender, recordings,
                           peer_wallets, peer_exam_grades, handler_peer,
                           pending_students, pending_sender>>

ErrStartRecording(s) ==
    \E pid \in PeerIds, rid \in RoomIds :
        LET rec == start_recording(recordings, enabled, rid, pid)
        IN  /\ recordings' = rec.recordings
            /\ ErrHandled(s, "StartRecording", pid, rid, ~rec.ok,
                          IF rec.ok THEN <<"RecordingStarted">> ELSE <<"RecordingError">>)
            /\ UNCHANGED <<rooms, peers, connections, conn_sender, peer_wallets,
                           peer_exam_grades, handler_peer, pending_students,
                           pending_sender>>

ErrStopRecording(s) ==
    \E pid \in PeerIds, rid \in RoomIds :
        LET rec == stop_recording(recordings, rid, pid)
        IN  /\ recordings' = rec.recordings
            /\ ErrHandled(s, "StopRecording", pid, rid, ~rec.ok,
                          IF rec.ok THEN <<"RecordingStopped">> ELSE <<"RecordingError">>)
            /\ UNCHANGED <<rooms, peers, connections, conn_sender, peer_wallets,
                           peer_exam_grades, handler_peer, pending_students,
                           pending_sender>>

\* The envelope a notification puts on the handler's own socket, when the
\* connection of peer_id writes to that socket.
Notified(s, peer_id, type) ==
    IF /\ peer_id \in DOMAIN connections
       /\ conn_sender[peer_id] = s
       /\ s \notin dead_sockets
    THEN <<type>> ELSE <<>>

\* KickParticipant: the Err of send_kick_notification is logged, then the
\* peer is removed.
ErrKickParticipant(s) ==
    \E pid \in PeerIds :
        /\ \E r \in { err_remove_peer(pid) } : ErrRemoved(r)
        /\ ErrHandled(s, "KickParticipant", pid, 0,
                      ~notify(connections, conn_sender, dead_sockets, pid),
                      Notified(s, pid, "ParticipantKicked"))
        /\ UNCHANGED <<handler_peer, pending_students, pending_sender>>

\* StartIdVerification and IdVerificationResult: the Err of the send is
\* logged.
ErrIdVerification(s) ==
    \E pid \in PeerIds,
       op \in { "StartIdVerification", "IdVerificationResult" } :
        /\ ErrHandled(s, op, pid, 0,
                      ~notify(connections, conn_sender, dead_sockets, pid),
                      Notified(s, pid, IF op = "StartIdVerification"
                                       THEN "StartIdVerification"
                                       ELSE "id_verification_status"))
        /\ UNCHANGED <<rooms, peers, connections, conn_sender, recordings,
                       peer_wallets, peer_exam_grades, handler_peer,
                       pending_students, pending_sender>>

\* The writer task of a socket ends: writing a message (the offer of a
\* connection, at the earliest) to the client failed, and the receiver of
\* the channel is dropped with the task.
ErrSenderTaskEnds(s) ==
    /\ ws_state[s] = "open"
    /\ s \notin dead_sockets
    /\ \E pid \in DOMAIN conn_sender : conn_sender[pid] = s
    /\ dead_sockets' = dead_sockets \cup {s}
    /\ UNCHANGED <<basevars, icevars, renegvars, chainvars, queuevars, gradevars,
                   closevars, idvars, wait, tmvars, rtpvars, pipevars, lockvars, recvars, ws_state, handler_peer, conn_sender, pending_sender,
                   origin, op_failed, replies>>

\* The receive loop ends (the stream ended or gave an error): cleanup, then
\* the writer task is aborted.
ErrSocketClose(s) ==
    /\ ws_state[s] = "open"
    /\ ws_state' = [ws_state EXCEPT ![s] = "closed"]
    /\ dead_sockets' = dead_sockets \cup {s}
    /\ IF handler_peer[s] = None
       THEN UNCHANGED <<rooms, peers, connections, conn_sender, recordings,
                        peer_wallets, peer_exam_grades, pending_students,
                        pending_sender>>
       ELSE /\ \E r \in { err_remove_peer(handler_peer[s]) } : ErrRemoved(r)
            /\ pending_sender' = Del(pending_sender, handler_peer[s])
            /\ pending_students' = pending_students \ {handler_peer[s]}
    /\ lastev' = [op |-> "Close", peer |-> handler_peer[s], room |-> 0]
    /\ origin' = s
    /\ op_failed' = FALSE
    /\ replies' = <<>>
    /\ UNCHANGED <<handler_peer, ev_count, nonerr>>

NextErr ==
    \E s \in Sockets :
        \/ ErrAccept(s)
        \/ ErrCreateRoom(s)
        \/ ErrJoin(s)
        \/ ErrJoinRequest(s)
        \/ ErrJoinResponse(s)
        \/ ErrLeave(s)
        \/ ErrAnswer(s)
        \/ ErrStartRecording(s)
        \/ ErrStopRecording(s)
        \/ ErrKickParticipant(s)
        \/ ErrIdVerification(s)
        \/ ErrSenderTaskEnds(s)
        \/ ErrSocketClose(s)

SpecErr == Init /\ [][NextErr]_vars

\* C40: when a socket closes whose handler holds the id of a peer that is
\* connected from another socket, the close leaves the registry, the rooms
\* and the connection table as they were.
C40_CloseRemovesOnlyOwnPeer ==
    [][\A s \in Sockets :
          ( /\ ws_state[s] = "open"
            /\ ws_state'[s] = "closed"
            /\ handler_peer[s] \in DOMAIN connections
            /\ conn_sender[handler_peer[s]] # s )
          => /\ rooms' = rooms
             /\ peers' = peers
             /\ connections' = connections]_vars

(***************************************************************************)
(* RoomManager::generate_room_id: a number drawn from a half-open range,   *)
(* formatted with at least six digits.                                     *)
(***************************************************************************)
ROOM_ID_LOW == 100000

ROOM_ID_HIGH == 999999

\* Calls of the generator in a run.
MaxGenerated == 1

\* rng.gen_range(low..high): the range low..high excludes high.
gen_range(low, high) == low..(high - 1)

\* The decimal digits of n, most significant first.
RECURSIVE Digits(_)
Digits(n) == IF n < 10 THEN <<n>> ELSE Append(Digits(n \div 10), n % 10)

\* format!("{:06}", n): zero-padded on the left to six digits, never cut.
format_06(n) ==
    LET d == Digits(n)
    IN  [i \in 1..(6 - Len(d)) |-> 0] \o d

\* The generator draws n and returns it formatted.
RngDraws(n) ==
    /\ gen_count < MaxGenerated
    /\ n \in gen_range(ROOM_ID_LOW, ROOM_ID_HIGH)
    /\ generated' = format_06(n)
    /\ gen_count' = gen_count + 1
    /\ UNCHANGED <<basevars, icevars, renegvars, chainvars, queuevars, gradevars,
                   closevars, errvars, wait, tmvars, rtpvars, pipevars, lockvars, recvars>>

generate_room_id ==
    /\ gen_count < MaxGenerated
    /\ \E n \in gen_range(ROOM_ID_LOW, ROOM_ID_HIGH) : RngDraws(n)

NextId == generate_room_id

SpecId == Init /\ [][NextId]_vars

(***************************************************************************)
(* The student path of add_peer_with_role: the loop that waits for the     *)
(* proctor's tracks, then join_room and add_peer.  Rooms are created,      *)
(* tracks arrive and sockets close before the join and during its sleeps   *)
(* (a step taken between the end of a sleep and the poll that follows is   *)
(* a step taken during that sleep).                                        *)
(***************************************************************************)
\* Rooms created and sockets closed while the student joins.
MaxWaitEvents == 3

MAX_WAIT_RETRIES == 15

WAIT_SLEEP_MS == 200

\* is_proctor_ready: the room has a proctor, and the counter of inbound
\* tracks has at least 1 under the proctor's id (0 when it has no entry).
is_proctor_ready(rms, counts, room_id) ==
    LET proctor_id == get_room_proctor(rms, room_id)
    IN  proctor_id # None /\ counts[proctor_id] >= 1

\* The loop condition with one retry more.
keep_waiting_OneMore(ready, retries) == ~ready /\ retries <= MAX_WAIT_RETRIES

\* while !is_proctor_ready(room) && retries < 15
keep_waiting(ready, retries) == ~ready /\ retries < MAX_WAIT_RETRIES

\* add_peer: nothing for a peer id that has a connection; else the new
\* connection, seeded with the existing tracks it may receive, enters the
\* table and is sent its Offer.
add_peer(prs, conns, trks, peer_id, room_id, order) ==
    IF peer_id \in DOMAIN conns
    THEN [fresh |-> FALSE, connections |-> conns, tracks |-> trks]
    ELSE LET seed == add_existing_tracks(trks, peer_id,
                         get_tracks_for_peer(prs, trks, peer_id, room_id, order))
         IN  [fresh |-> TRUE,
              connections |-> Put(conns, peer_id, [tracks |-> seed.attached]),
              tracks |-> seed.tracks]

\* What the steps of the join itself leave alone.
nonwait == <<last, notif, sock, envelopes, peers_with_tracks, icevars, renegvars,
             enabled, peer_wallets, recordings, peer_exam_grades, log, lastev,
             queuevars, gradevars, closevars, errvars, idvars, tmvars, rtpvars, pipevars, lockvars, recvars>>

\* CreateRoom: create_room, then add_peer for the proctor.
WaitCreateRoom ==
    \E pid \in PeerIds, rid \in RoomIds :
        \E r \in { create_room(rooms, peers, rid, pid) } :
            \E order \in Orders(get_room_peers(r.peers, rid)) :
                \E c \in { add_peer(r.peers, connections, tracks, pid, rid, order) } :
                    /\ wait.pc \notin { "poll", "done" }
                    /\ ev_count < MaxWaitEvents
                    /\ ev_count' = ev_count + 1
                    /\ rid \in DOMAIN rooms \/ \A x \in RoomIds \ DOMAIN rooms : rid <= x
                    /\ rooms' = r.rooms
                    /\ peers' = r.peers
                    /\ connections' = IF r.ok THEN c.connections ELSE connections
                    /\ tracks' = IF r.ok THEN c.tracks ELSE tracks
                    /\ UNCHANGED <<wait, nonwait>>

\* A track of a connected peer arrives: handle_track_received.
WaitTrack == wait.pc \notin { "poll", "done" } /\ CloseTrack

\* A socket closes: cleanup removes its peer.
WaitRemovePeer ==
    /\ wait.pc \notin { "poll", "done" }
    /\ ev_count < MaxWaitEvents
    /\ Cleanup

\* Join{room_id, peer_id, role: "student"}: handle_join calls
\* add_peer_with_role, which comes to the loop with retries = 0.
WaitJoinStart ==
    \E pid \in PeerIds, rid \in RoomIds :
        /\ wait.pc = "idle"
        /\ wait' = [IdleWait EXCEPT !.pc = "poll", !.peer = pid, !.room = rid]
        /\ UNCHANGED <<rooms, peers, connections, tracks, ev_count, nonwait>>

\* The loop condition is evaluated.
WaitPoll ==
    LET ready == is_proctor_ready(rooms, peers_with_tracks, wait.room)
    IN  /\ wait.pc = "poll"
        /\ wait' = IF keep_waiting(ready, wait.retries)
                   THEN [wait EXCEPT !.pc = "sleep", !.polls = @ + 1]
                   ELSE [wait EXCEPT !.pc = "join", !.polls = @ + 1,
                                     !.saw_ready = ready]
        /\ UNCHANGED <<rooms, peers, connections, tracks, ev_count, nonwait>>

\* The body of the loop: sleep 200 ms, retries += 1.
WaitSleepEnds ==
    /\ wait.pc = "sleep"
    /\ wait' = [wait EXCEPT !.pc = "poll", !.retries = @ + 1,
                            !.slept_ms = @ + WAIT_SLEEP_MS]
    /\ UNCHANGED <<rooms, peers, connections, tracks, ev_count, nonwait>>

\* After the loop: join_room (its Err ends the join), then add_peer.
WaitJoin ==
    \E r \in { join_room(rooms, peers, wait.room, wait.peer) } :
        \E order \in Orders(get_room_peers(r.peers, wait.room)) :
            \E c \in { add_peer(r.peers, connections, tracks, wait.peer, wait.room,
                                 order) } :
                /\ wait.pc = "join"
                /\ rooms' = r.rooms
                /\ peers' = r.peers
                /\ connections' = IF r.ok THEN c.connections ELSE connections
                /\ tracks' = IF r.ok THEN c.tracks ELSE tracks
                /\ wait' = [wait EXCEPT !.pc = "done",
                                        !.room_there = room_exists(rooms, wait.room),
                                        !.ok = r.ok,
                                        !.fresh = r.ok /\ c.fresh,
                                        !.offered = r.ok /\ c.fresh]
                /\ UNCHANGED <<ev_count, nonwait>>

NextWait ==
    \/ WaitCreateRoom
    \/ WaitTrack
    \/ WaitRemovePeer
    \/ WaitJoinStart
    \/ WaitPoll
    \/ WaitSleepEnds
    \/ WaitJoin

SpecWait == Init /\ [][NextWait]_vars

(***************************************************************************)
(* Properties.                                                             *)

(***************************************************************************)
(* The chain event queue (substrate/queue.rs): the handlers of the server  *)
(* queue events, one background task submits them to the ledger.           *)
(***************************************************************************)
RoomLevel == { "RoomCreated", "RoomClosed" }

ParticipantLevel == { "ParticipantJoined", "ParticipantLeft", "ParticipantKicked",
                      "IdVerification", "SuspiciousActivity", "RecordingStarted",
                      "RecordingStopped", "CreateExamResult" }

\* ChainEvent::dependency_key: "room:<id>" or "room:<id>:participant:<address>";
\* the result-level events are keyed by "result:<id>".
dependency_key(e) ==
    IF e.type \in RoomLevel THEN <<"room", e.room>>
    ELSE IF e.type \in ParticipantLevel THEN <<"room", e.room, "participant", e.who>>
    ELSE <<"result", e.room>>

\* ChainEvent::room_dependency: the room id, or 0 for None.
room_dependency(e) ==
    IF e.type = "RoomCreated" THEN 0
    ELSE IF e.type \in RoomLevel \cup ParticipantLevel THEN e.room
    ELSE 0

\* needs_delay that skips the test of the key's last completion time.
needs_delay_NoKeyDelay(created, times, t, e) ==
    IF room_dependency(e) # 0 /\ room_dependency(e) \notin created
    THEN TX_DELAY
    ELSE 0

\* TransactionTracker::needs_delay at clock t: the delay, or 0 for None.
needs_delay(created, times, t, e) ==
    IF room_dependency(e) # 0 /\ room_dependency(e) \notin created
    THEN TX_DELAY
    ELSE IF /\ dependency_key(e) \in DOMAIN times
            /\ t - times[dependency_key(e)] < TX_DELAY
    THEN TX_DELAY - (t - times[dependency_key(e)])
    ELSE 0

Mk(type, room_id, who) == [type |-> type, room |-> room_id, who |-> who, n |-> 0]

\* EventQueue::emit, once per event of evs: each enters the channel with its
\* position in the order of emission.
Emit(evs) ==
    /\ emitted + Len(evs) <= MaxEmits
    /\ chan' = chan \o [i \in 1..Len(evs) |-> [evs[i] EXCEPT !.n = emitted + i]]
    /\ emitted' = emitted + Len(evs)

\* create_room: RoomCreated only for a proctor with a wallet, then
\* RecordingStarted when the recording started.
QCreateRoom ==
    \E rid \in RoomIds \ open_rooms, w \in Wallets \cup {""}, rec \in BOOLEAN :
        /\ Emit(IF w = "" THEN <<>>
                ELSE <<Mk("RoomCreated", rid, "")>>
                     \o (IF rec THEN <<Mk("RecordingStarted", rid, w)>> ELSE <<>>))
        /\ open_rooms' = open_rooms \cup {rid}
        /\ UNCHANGED <<qpc, cur, now, wake, started, last_tx_times, room_created, done,
                       result, nonqueue>>

\* add_peer_with_role for a student with a wallet.
QJoin ==
    \E rid \in open_rooms, w \in Wallets, rec \in BOOLEAN :
        /\ Emit(<<Mk("ParticipantJoined", rid, w)>>
                \o (IF rec THEN <<Mk("RecordingStarted", rid, w)>> ELSE <<>>))
        /\ UNCHANGED <<open_rooms, qpc, cur, now, wake, started, last_tx_times,
                       room_created, done, result, nonqueue>>

\* remove_peer of a student with a wallet.
QStudentLeft ==
    \E rid \in open_rooms, w \in Wallets, rec \in BOOLEAN :
        /\ Emit((IF rec THEN <<Mk("CreateExamResult", rid, w),
                               Mk("RecordingStopped", rid, w)>>
                 ELSE <<>>)
                \o <<Mk("ParticipantLeft", rid, w)>>)
        /\ UNCHANGED <<open_rooms, qpc, cur, now, wake, started, last_tx_times,
                       room_created, done, result, nonqueue>>

\* remove_peer of the proctor: RoomClosed is emitted with or without wallet.
QProctorLeft ==
    \E rid \in open_rooms, w \in Wallets \cup {""}, recorded \in SUBSET Wallets :
        \E stopped \in Orders(recorded) :
            /\ Emit([i \in 1..Len(stopped) |-> Mk("RecordingStopped", rid, stopped[i])]
                    \o (IF w = "" THEN <<>> ELSE <<Mk("ParticipantLeft", rid, w)>>)
                    \o <<Mk("RoomClosed", rid, "")>>)
            /\ open_rooms' = open_rooms \ {rid}
            /\ UNCHANGED <<qpc, cur, now, wake, started, last_tx_times, room_created,
                           done, result, nonqueue>>

\* process_events: receiver.recv() returns the oldest event, needs_delay is
\* asked, and the task either sleeps or calls handle_event.
QRecv ==
    /\ qpc = "idle"
    /\ chan # <<>>
    /\ cur' = Head(chan)
    /\ chan' = Tail(chan)
    /\ LET d == needs_delay(room_created, last_tx_times, now, Head(chan))
       IN  IF d = 0
           THEN qpc' = "submit" /\ started' = now /\ wake' = 0
           ELSE qpc' = "sleep" /\ wake' = now + d /\ started' = 0
    /\ UNCHANGED <<open_rooms, emitted, now, last_tx_times, room_created, done, result,
                   nonqueue>>

\* sleep(delay_duration) is over: handle_event is called.
QWake ==
    /\ qpc = "sleep"
    /\ now >= wake
    /\ qpc' = "submit"
    /\ started' = now
    /\ wake' = 0
    /\ UNCHANGED <<open_rooms, chan, emitted, cur, now, last_tx_times,
                   room_created, done, result, nonqueue>>

\* The loop body that records completion only when handle_event returned Ok.
Completed_OnlyOnOk(res) ==
    /\ room_created' = IF res = "Ok" /\ cur.type = "RoomCreated"
                       THEN room_created \cup {cur.room}
                       ELSE room_created
    /\ last_tx_times' = IF res = "Ok"
                        THEN Put(last_tx_times, dependency_key(cur), now)
                        ELSE last_tx_times
    /\ result' = res

\* process_events after handle_event returned res: record_completion(&event)
\* whatever res is, then res is only logged.
Completed(res) ==
    /\ room_created' = IF cur.type = "RoomCreated" THEN room_created \cup {cur.room}
                       ELSE room_created
    /\ last_tx_times' = Put(last_tx_times, dependency_key(cur), now)
    /\ result' = res

\* handle_event returned: Ok, or Err once send_tx_with_retry has used up its
\* attempts; the loop goes back to recv.
QComplete ==
    /\ qpc = "submit"
    /\ \E res \in {"Ok", "Err"} : Completed(res)
    /\ done' = Append(done, [ev |-> cur, start |-> started, end |-> now])
    /\ qpc' = "idle"
    /\ cur' = NoEvent
    /\ started' = 0
    /\ UNCHANGED <<open_rooms, chan, emitted, now, wake, nonqueue>>

\* A second passes.
Tick ==
    /\ now < MaxTime
    /\ now' = now + 1
    /\ UNCHANGED <<open_rooms, chan, emitted, qpc, cur, wake, started, last_tx_times,
                   room_created, done, result, nonqueue>>

NextQueue ==
    \/ QCreateRoom
    \/ QJoin
    \/ QStudentLeft
    \/ QProctorLeft
    \/ QRecv
    \/ QWake
    \/ QComplete
    \/ Tick

SpecQueue == Init /\ [][NextQueue]_vars

\* The clock goes on while the processor is in sleep(delay_duration): the
\* sleep ends however late it was started. The seconds up to the end of
\* the sleep pass in one step.
SleepTick ==
    /\ qpc = "sleep"
    /\ now >= MaxTime
    /\ now < wake
    /\ now' = wake
    /\ UNCHANGED <<open_rooms, chan, emitted, qpc, cur, wake, started, last_tx_times,
                   room_created, done, result, nonqueue>>

NextQueueLive ==
    \/ QCreateRoom
    \/ QJoin
    \/ QStudentLeft
    \/ QProctorLeft
    \/ QRecv
    \/ QWake
    \/ QComplete
    \/ Tick
    \/ SleepTick

\* The processor task is scheduled: recv returns when the channel holds an
\* event, sleep ends when its time has passed, and handle_event returns
\* (send_tx_with_retry makes retry_count attempts, each under a timeout).
SpecQueueLive ==
    /\ Init
    /\ [][NextQueueLive]_vars
    /\ WF_vars(QRecv)
    /\ WF_vars(QWake)
    /\ WF_vars(QComplete)
    /\ WF_vars(Tick)
    /\ WF_vars(SleepTick)


(***************************************************************************)
(* SubmitExamResult (signaling.rs): the grade in basis points.             *)
(***************************************************************************)
\* x * m with every carry kept: one limb more than x has.
RECURSIVE MulLimbs(_, _, _)
MulLimbs(x, m, carry) ==
    IF x = <<>> THEN <<carry>>
    ELSE LET v == Head(x) * m + carry
         IN  <<v % LimbBase>> \o MulLimbs(Tail(x), m, v \div LimbBase)

\* The remainder of (the limbs of x from i up) divided by d.
RECURSIVE RemFrom(_, _, _)
RemFrom(x, d, i) ==
    IF i > Len(x) THEN 0 ELSE (RemFrom(x, d, i + 1) * LimbBase + x[i]) % d

\* x / d by long division, for a divisor below 2^15.
DivLimbs(x, d) ==
    [i \in 1..Len(x) |-> (RemFrom(x, d, i + 1) * LimbBase + x[i]) \div d]

\* u64 multiplication that wraps: the four low limbs of the product.
wrapping_mul(x, m) == SubSeq(MulLimbs(x, m, 0), 1, 4)

\* The multiplication leaves the 64 bits.
Overflows(x, m) == MulLimbs(x, m, 0)[5] # 0

IsZero(x) == \A i \in 1..Len(x) : x[i] = 0

\* let grade = if total > 0 { (score * 10000) / total } else { 0 }, in a
\* build without overflow checks.
grade_of(score, total) ==
    IF ~IsZero(total)
    THEN DivLimbs(wrapping_mul(score, BasisPoints), total[1])
    ELSE <<0, 0, 0, 0>>

\* handle_submit_exam_result.  With overflow checks (a debug build) the
\* multiplication panics and the handler ends there: nothing is stored,
\* nothing is acknowledged.  The build profile is not part of the sources,
\* so either outcome is possible.
GradeSubmit ==
    \E score \in Scores, total \in Totals, overflow_checks \in BOOLEAN :
        /\ submits < MaxSubmits
        /\ submits' = submits + 1
        /\ sub_score' = score
        /\ sub_total' = total
        /\ IF overflow_checks /\ ~IsZero(total) /\ Overflows(score, BasisPoints)
           THEN grade_stored' = grade_stored /\ grade_ack' = None
           ELSE /\ grade_stored' = grade_of(score, total)
                /\ grade_ack' = grade_of(score, total)
        /\ UNCHANGED nongrade

NextGrade ==
    \/ GradeSubmit

SpecGrade == Init /\ [][NextGrade]_vars

(***************************************************************************)
IsStudent(prs, x) == x \in DOMAIN prs /\ prs[x].role = "Student"

IsProctor(prs, x) == x \in DOMAIN prs /\ prs[x].role = "Proctor"

\* The sinks (track, subscriber) a step adds to the Track Manager.
NewSinks ==
    { x \in { <<t, b>> : t \in DOMAIN tracks', b \in PeerIds } :
        /\ x[2] \in tracks'[x[1]].local_tracks
        /\ ~(x[1] \in DOMAIN tracks /\ x[2] \in tracks[x[1]].local_tracks) }

\* C1: in every reachable state the Track Manager holds no sink (T, B) whose
\* source is a Student and whose subscriber B is a Student: neither the
\* seeding of a new connection nor the track-notification path forwards one
\* student's track to another student.  Stated of the step that creates the
\* sink, with the roles the registry holds at that step.
C1_NoStudentToStudentSink ==
    [][\A x \in NewSinks :
          ~(IsStudent(peers, tracks'[x[1]].source_peer_id) /\ IsStudent(peers, x[2]))]_vars

\* No handler is between two of its steps and no notification is waiting:
\* nothing further happens unless a client acts.
Quiescent == notif = <<>> /\ \A s \in Sockets : sock[s].pc = "idle"

\* C39: in every quiescent state every peer id of the connection table is a
\* peer of the registry and the room it is registered in exists.
C39_ConnectionsAreRegistered ==
    Quiescent =>
        \A p \in DOMAIN connections :
            /\ p \in DOMAIN peers
            /\ peers[p].room_id \in DOMAIN rooms

\* C2: for every registered track T of source S and every peer P of the
\* connection table the policy admits for S, a sink (T, P) exists and is
\* attached to P's connection once the join of P and the arrival of T have
\* both run to their end, however the two were interleaved.
C2_SinkForEveryAdmittedPeer ==
    Quiescent =>
        \A t \in DOMAIN tracks : \A p \in DOMAIN connections :
            should_forward_track(peers, tracks[t].source_peer_id, p) =>
                /\ p \in tracks[t].local_tracks
                /\ t \in connections[p].tracks

\* The reference forwarding policy.
RefPolicy(prs, from, to) ==
    /\ from # to
    /\ from \in DOMAIN prs
    /\ to \in DOMAIN prs
    /\ prs[from].room_id = prs[to].room_id
    /\ \/ prs[from].role = "Proctor"
       \/ prs[from].role = "Student" /\ prs[to].role = "Proctor"

C4_ProctorRemovalClosesRoom ==
    [][\A r \in DOMAIN rooms :
          ( /\ last'.op = "remove_peer"
            /\ rooms[r].proctor_id = last'.peer
            /\ IsProctor(peers, last'.peer) )
          => /\ ~room_exists(rooms', r)
             /\ \A s \in Range(rooms[r].students) : s \notin DOMAIN peers']_vars

\* C5: after SfuServer::remove_peer(proctor) returns for the proctor of a
\* room with students, the connection table holds no connection of a student
\* that was in that room.
C5_ProctorLeaveClosesStudents ==
    [][\A p \in PeerIds :
          ( /\ IsProctor(peers, p)
            /\ get_room_proctor(rooms, peers[p].room_id) = p
            /\ p \notin DOMAIN peers' )
          => \A st \in Range(rooms[peers[p].room_id].students) :
                 (IsStudent(peers, st) /\ peers[st].room_id = peers[p].room_id)
                     => st \notin DOMAIN connections']_vars

C7_I2_RoomProctorIsProctor ==
    \A r \in DOMAIN rooms :
        /\ IsProctor(peers, rooms[r].proctor_id)
        /\ peers[rooms[r].proctor_id].room_id = r

\* C8 (I3): in every state reached by create_room, join_room and remove_peer
\* calls, every room's student list is exactly the set of Student peers the
\* peer map places in that room.
C8_I3_StudentsAgree ==
    \A r \in DOMAIN rooms :
        Range(rooms[r].students) =
            { p \in DOMAIN peers : peers[p].role = "Student" /\ peers[p].room_id = r }

\* C9: create_room(proctor_id) fails, leaving the room map and the peer map
\* unchanged, whenever proctor_id is already in the peer map.
C9_CreateRoomRejectsKnownPeer ==
    [][(last'.op = "create_room" /\ last'.peer \in DOMAIN peers)
          => (~last'.ok /\ rooms' = rooms /\ peers' = peers)]_vars

\* C10: a student's Join whose room does not exist when join_room is called
\* is answered with an error envelope alone (no join_success, no Offer) and
\* inserts no peer: the registry maps and the connection table are left as
\* they were, so the peer id enters neither.
C10_JoinMissingRoomFails ==
    [][\A s \in Sockets :
          ( /\ sock[s].pc = "join_room"
            /\ ~room_exists(rooms, sock[s].room)
            /\ sock'[s] # sock[s] )
          => /\ sock'[s].pc = "idle"
             /\ sock'[s].reply = <<"error_join">>
             /\ rooms' = rooms /\ peers' = peers /\ connections' = connections
             /\ sock[s].peer \notin (DOMAIN peers' \ DOMAIN peers)
             /\ sock[s].peer \notin (DOMAIN connections' \ DOMAIN connections)]_vars

\* A Join was answered with the error envelope alone, and its peer id is in
\* neither the registry nor the connection table.
C10_Witness ==
    \E s \in Sockets :
        /\ sock[s].env = "Join" /\ sock[s].reply = <<"error_join">>
        /\ sock[s].peer \in PeerIds
        /\ sock[s].peer \notin DOMAIN peers
        /\ sock[s].peer \notin DOMAIN connections

\* The number of times candidate c was given to add_ice_candidate.
TimesAdded(c) == Cardinality({ i \in 1..Len(added_ice) : added_ice[i] = c })

IceQuiescent == \A s \in Sockets : iceh[s].pc = "idle"

\* C11: no candidate is added to the peer connection before the Answer is
\* applied; once handle_answer has applied the Answer and the handlers have
\* returned, the pending queue is empty and every candidate received has
\* been delivered exactly once, the buffered ones in arrival order.
C11_IceBufferedThenFlushed ==
    /\ added_ice # <<>> => remote_description
    /\ \A i, j \in 1..Len(added_ice) :
           (i < j /\ added_ice[i] \in queued_ice /\ added_ice[j] \in queued_ice)
               => added_ice[i] < added_ice[j]
    /\ (IceQuiescent /\ remote_description) =>
           /\ pending_ice = <<>>
           /\ \A c \in 1..ice_count : TimesAdded(c) = 1

\* C12: the track additions of one debounce window schedule one task, and
\* the Renegotiate envelope that task sends covers every track added before
\* its sleep ended; at any time at most one renegotiation timer is
\* outstanding for the target peer.
C12_OneRenegotiationPerWindow ==
    /\ timers <= 1
    /\ pending_renegotiations => timers >= 1
    /\ \A i \in 1..Len(sent) :
           sent[i].kind = "renegotiate" => sent[i].covers >= sent[i].due

\* The renegotiation attempts on the peer's connection that have passed the
\* Stable check and have not yet set their local description.
PastCheck ==
    { i \in 1..Len(attempts) :
        /\ attempts[i].kind = "renegotiate"
        /\ attempts[i].pc \in {"checked", "created"}
        /\ attempts[i].gen = conn }

\* C13: no local offer (Offer or Renegotiate) is set and sent while an
\* earlier offer to the peer is unanswered, and no two renegotiation
\* attempts for the peer are both past the Stable check with neither having
\* set its local description.
C13_RenegotiationNeverOverlaps ==
    /\ \A i \in 1..Len(sent) : ~sent[i].unanswered
    /\ Cardinality(PastCheck) <= 1


\* An entry of the log that is the domain event `type` about peer_id.
IsEvent(e, type, peer_id) == e.kind = "event" /\ e.type = type /\ e.peer = peer_id

\* The step handled an envelope that removes peer_id (Leave, a closed
\* socket, or KickParticipant).
Removes(peer_id) ==
    /\ ev_count' = ev_count + 1
    /\ lastev'.op \in {"Leave", "KickParticipant"}
    /\ lastev'.peer = peer_id

\* C14: when a student with a known wallet and a submitted exam result is
\* removed, CreateExamResult with that grade is emitted, before the
\* RecordingStopped of that student, which precedes its ParticipantLeft.
C14_ExamResultBeforeRecordingStopped ==
    [][\A pid \in PeerIds :
          (/\ IsStudent(peers, pid)
           /\ pid \in peer_wallets
           /\ pid \in DOMAIN peer_exam_grades
           /\ Removes(pid))
          => \E i, j, k \in 1..Len(log') :
                /\ i < j /\ j < k
                /\ IsEvent(log'[i], "CreateExamResult", pid)
                /\ log'[i].arg = peer_exam_grades[pid]
                /\ IsEvent(log'[j], "RecordingStopped", pid)
                /\ IsEvent(log'[k], "ParticipantLeft", pid)]_vars

\* C15: when the proctor of a room is removed and every participant has a
\* known wallet, the events emitted are, in this order: RecordingStopped for
\* each recorded peer of the room, ParticipantLeft{ProctorLeft} for the
\* proctor, ParticipantLeft{RoomClosed} for every student of the room, and
\* last RoomClosed{ProctorLeft}.
C15_ProctorLeftEventOrder ==
    [][\A pid \in PeerIds :
          (/\ IsProctor(peers, pid)
           /\ room_exists(rooms, peers[pid].room_id)
           /\ rooms[peers[pid].room_id].proctor_id = pid
           /\ pid \in peer_wallets
           /\ Range(rooms[peers[pid].room_id].students) \subseteq peer_wallets
           /\ Removes(pid))
          => LET rid == peers[pid].room_id
                 ev == SelectSeq(log', LAMBDA e : e.kind = "event")
             IN  \E i \in 1..Len(ev) :
                    /\ IsEvent(ev[i], "ParticipantLeft", pid)
                    /\ ev[i].arg = "ProctorLeft"
                    /\ \A x \in PeerIds :
                          <<rid, x>> \in recordings =>
                              \E j \in 1..(i - 1) : IsEvent(ev[j], "RecordingStopped", x)
                    /\ \A x \in Range(rooms[rid].students) :
                          \E k \in (i + 1)..(Len(ev) - 1) :
                              /\ IsEvent(ev[k], "ParticipantLeft", x)
                              /\ ev[k].arg = "RoomClosed"
                    /\ ev[Len(ev)].type = "RoomClosed"
                    /\ ev[Len(ev)].arg = "ProctorLeft"]_vars

\* C16: on KickParticipant for a connected student, the victim is sent
\* ParticipantKicked before its connection is removed, the peer is removed,
\* and the ParticipantKicked event is emitted whenever the wallets of the
\* room's proctor and of the victim were known when the kick arrived.
C16_KickNotifiesRemovesEmits ==
    [][\A pid \in PeerIds :
          (/\ IsStudent(peers, pid)
           /\ pid \in DOMAIN connections
           /\ ev_count' = ev_count + 1
           /\ lastev' = [op |-> "KickParticipant", peer |-> pid, room |-> peers[pid].room_id])
          => /\ \E i, j \in 1..Len(log') :
                   /\ i < j
                   /\ log'[i] = Send("ParticipantKicked", pid, peers[pid].room_id)
                   /\ log'[j].kind = "close" /\ log'[j].peer = pid
             /\ pid \notin DOMAIN peers'
             /\ pid \notin DOMAIN connections'
             /\ (/\ get_room_proctor(rooms, peers[pid].room_id) \in peer_wallets
                 /\ pid \in peer_wallets)
                => \E i \in 1..Len(log') : IsEvent(log'[i], "ParticipantKicked", pid)]_vars


\* C17: the event processor never submits an event with a room dependency
\* (any room or participant event but RoomCreated) before the RoomCreated
\* of the same room has completed.
C17_RoomCreatedCompletesFirst ==
    (qpc = "submit" /\ room_dependency(cur) # 0)
    => \E i \in 1..Len(done) :
          done[i].ev.type = "RoomCreated" /\ done[i].ev.room = cur.room

\* The submissions made or under way, in the order they started.
Submissions ==
    done \o (IF qpc = "submit"
             THEN <<[ev |-> cur, start |-> started, end |-> started]>>
             ELSE <<>>)

\* C18: events that share a dependency key are submitted one at a time, in
\* the order they were emitted, each starting at least TX_DELAY after the
\* completion of the previous submission under that key.
C18_SameKeySerializedWithDelay ==
    \A i, j \in 1..Len(Submissions) :
        (i < j /\ dependency_key(Submissions[i].ev) = dependency_key(Submissions[j].ev))
        => /\ Submissions[i].ev.n < Submissions[j].ev.n
           /\ Submissions[j].start >= Submissions[i].end + TX_DELAY

\* Two events under one key were submitted, the second after a sleep.
C18_Witness ==
    \E i, j \in 1..Len(done) :
        /\ i < j
        /\ dependency_key(done[i].ev) = dependency_key(done[j].ev)
        /\ done[j].start > done[i].end

\* A queued event that nothing of its own holds back: needs_delay asks for
\* no delay, and no event queued before it has its key.
Ready(i) ==
    /\ needs_delay(room_created, last_tx_times, now, chan[i]) = 0
    /\ \A j \in 1..(i - 1) : dependency_key(chan[j]) # dependency_key(chan[i])

\* C19: an event that waits out its delay (or waits for RoomCreated) does
\* not hold back a later-queued event with a different dependency key whose
\* own preconditions are satisfied.
C19_IndependentKeysNotDelayed ==
    ~ (/\ qpc = "sleep"
       /\ now < wake
       /\ \E i \in 1..Len(chan) :
             /\ dependency_key(chan[i]) # dependency_key(cur)
             /\ Ready(i))


\* floor(score * 10000 / total) with nothing lost: five limbs.
ExactGrade(score, total) ==
    IF IsZero(total) THEN <<0, 0, 0, 0, 0>>
    ELSE DivLimbs(MulLimbs(score, BasisPoints, 0), total[1])

\* C20: for every SubmitExamResult{score, total} the grade stored and the
\* grade acknowledged equal floor(score * 10000 / total) computed without
\* overflow when total > 0, and 0 when total = 0.
C20_GradeIsExactBasisPoints ==
    submits > 0 =>
        /\ grade_stored \o <<0>> = ExactGrade(sub_score, sub_total)
        /\ grade_ack \o <<0>> = ExactGrade(sub_score, sub_total)


\* No table of the server holds anything keyed by peer_id, and the Track
\* Manager holds no track of which peer_id is the source.
Gone(peer_id) ==
    /\ peer_id \notin DOMAIN peers
    /\ \A rid \in DOMAIN rooms :
          rooms[rid].proctor_id # peer_id /\ ~Contains(rooms[rid].students, peer_id)
    /\ peer_id \notin DOMAIN connections
    /\ peer_id \notin pending_students
    /\ peer_id \notin pending_ice_peers
    /\ peer_id \notin pending_reneg_peers
    /\ peers_with_tracks[peer_id] = 0
    /\ peer_id \notin peer_wallets
    /\ peer_id \notin DOMAIN peer_exam_grades
    /\ \A t \in DOMAIN tracks : tracks[t].source_peer_id # peer_id

\* C21: after the socket of a successfully joined peer closes and cleanup
\* has finished, nothing keyed by the peer remains in the registry, the
\* connection table, the pending tables, the track counter, the wallet map
\* or the grade map, the Track Manager holds no track of the peer, and the
\* room of a proctor no longer exists.
C21_CleanupRemovesEverything ==
    [][\A pid \in PeerIds :
          (/\ pid \in DOMAIN peers
           /\ pid \in DOMAIN connections
           /\ ev_count' = ev_count + 1
           /\ lastev' = [op |-> "Close", peer |-> pid, room |-> 0])
          => /\ Gone(pid)'
             /\ IsProctor(peers, pid) => ~room_exists(rooms', peers[pid].room_id)]_vars


\* The error envelopes among the envelopes a handler sent to its socket.
ErrorReplies == SelectSeq(replies, LAMBDA t : t \in { "error", "RecordingError" })

\* C22: when the server operation a signaling handler triggered returned an
\* error, the handler has sent exactly one error envelope (error, or
\* RecordingError for a recording request) to the originating socket, and
\* that socket is still open for its next envelopes.
C22_HandlerErrorAnsweredOnce ==
    (lastev.op \notin { "none", "Close" } /\ op_failed) =>
        /\ Len(ErrorReplies) = 1
        /\ ws_state[origin] = "open"


\* How often e occurs in seq.
Occurrences(seq, e) == Cardinality({ i \in 1..Len(seq) : seq[i] = e })

\* C23: a join_room(r, s) that follows a join_room(r, s) which returned Ok
\* returns Ok and leaves the room map and the peer map as the first call
\* left them, with s once among the students of r.
C23_JoinRoomIdempotent ==
    [][(/\ last.op = "join_room" /\ last.ok
        /\ last'.op = "join_room"
        /\ last'.peer = last.peer /\ last'.room = last.room)
          => /\ last'.ok
             /\ rooms' = rooms
             /\ peers' = peers
             /\ Occurrences(rooms'[last.room].students, last.peer) = 1]_vars

\* A student is in a room it joined with the call made last; the same call
\* can be made again.
C23_Witness ==
    /\ last.op = "join_room" /\ last.ok
    /\ last.room \in DOMAIN rooms
    /\ Contains(rooms[last.room].students, last.peer)
    /\ join_room(rooms, peers, last.room, last.peer).ok


\* The number a string of decimal digits denotes.
RECURSIVE Value(_)
Value(d) == IF d = <<>> THEN 0 ELSE 10 * Value(SubSeq(d, 1, Len(d) - 1)) + d[Len(d)]

\* C24: generate_room_id never returns anything but six digits denoting a
\* number of 100000..999999, and it can return each of them, 999999
\* included: before a call, every draw of that range is possible.
C24_RoomIdRangeInclusive ==
    /\ generated # None =>
          Len(generated) = 6 /\ Value(generated) \in 100000..999999
    /\ gen_count < MaxGenerated =>
          \A n \in 100000..999999 : ENABLED RngDraws(n)


\* One of a and b is a Student and the other a Proctor.
StudentAndProctor(prs, a, b) ==
    \/ IsStudent(prs, a) /\ IsProctor(prs, b)
    \/ IsProctor(prs, a) /\ IsStudent(prs, b)

\* C25 as stated: for a student and a proctor of the same room the answer
\* for one direction is the negation of the answer for the other direction;
\* for a student and a proctor of different rooms, and for two students,
\* both directions are false.
C25_StudentProctorNegation ==
    last.op = "should_forward_track" =>
        LET back == should_forward_track(peers, last.to, last.peer)
        IN  /\ StudentAndProctor(peers, last.peer, last.to) =>
                  IF peers[last.peer].room_id = peers[last.to].room_id
                  THEN last.ok = ~back
                  ELSE ~last.ok /\ ~back
            /\ (IsStudent(peers, last.peer) /\ IsStudent(peers, last.to)) =>
                  ~last.ok /\ ~back

\* C25, amended: for a student and a proctor of the same room both
\* directions are true; for a student and a proctor of different rooms, and
\* for two students, both directions are false.
C25_StudentProctorBothWays ==
    last.op = "should_forward_track" =>
        LET back == should_forward_track(peers, last.to, last.peer)
        IN  /\ StudentAndProctor(peers, last.peer, last.to) =>
                  IF peers[last.peer].room_id = peers[last.to].room_id
                  THEN last.ok /\ back
                  ELSE ~last.ok /\ ~back
            /\ (IsStudent(peers, last.peer) /\ IsStudent(peers, last.to)) =>
                  ~last.ok /\ ~back

\* The call was made for a student and the proctor of the student's room,
\* while a student and a proctor of different rooms exist as well.
C25_Witness ==
    /\ last.op = "should_forward_track"
    /\ IsStudent(peers, last.peer) /\ IsProctor(peers, last.to)
    /\ peers[last.peer].room_id = peers[last.to].room_id
    /\ \E a, b \in DOMAIN peers :
          /\ IsStudent(peers, a) /\ IsProctor(peers, b)
          /\ peers[a].room_id # peers[b].room_id


\* C26: a create_room whose generated id collides with an existing room
\* goes on with another id: it returns an error only when no id is unused,
\* and it leaves every existing room as it was.
C26_CreateRoomRetriesOnCollision ==
    [][last'.op = "create_room"
          => /\ ~last'.ok => RoomIds \subseteq DOMAIN rooms
             /\ \A r \in DOMAIN rooms :
                   r \in DOMAIN rooms' /\ rooms'[r] = rooms[r]]_vars


\* An Offer or Renegotiate envelope sent to the peer covers n tracks.
Covered(n) == \E i \in 1..Len(sent) : sent[i].covers >= n

\* C27: every sink added to the connection of a peer that stays connected
\* is eventually covered by an Offer or Renegotiate envelope sent to the
\* peer, whether or not another track arrives after an abandoned attempt.
C27_EverySinkEventuallyOffered ==
    \A c \in 1..MaxConns, n \in 1..MaxAdds :
        [](conn = c /\ pc_tracks >= n => <>(conn # c \/ Covered(n)))


HasInboundTrack(peer_id) ==
    \E t \in DOMAIN tracks : tracks[t].source_peer_id = peer_id

\* C29: is_proctor_ready(room) is true exactly when the room exists and an
\* inbound track of its current proctor is registered; a proctor without
\* an inbound track is not reported ready.
C29_ReadyIffProctorHasTrack ==
    \A rid \in RoomIds :
        is_proctor_ready(rooms, peers_with_tracks, rid)
            <=> /\ room_exists(rooms, rid)
                /\ HasInboundTrack(get_room_proctor(rooms, rid))


\* handle_event has returned for the n-th emitted event.
Attempted(n) == \E i \in 1..Len(done) : done[i].ev.n = n

\* C30: when a submission finishes, with Ok or with Err, the key's last
\* transaction time is set to the time of completion and a RoomCreated
\* marks its room created, and the processor goes back to the channel;
\* every emitted event is eventually submitted, whatever became of the
\* events before it.
C30_CompletionAlwaysRecorded ==
    /\ [][(qpc = "submit" /\ qpc' = "idle") =>
            /\ result' \in {"Ok", "Err"}
            /\ dependency_key(cur) \in DOMAIN last_tx_times'
            /\ last_tx_times'[dependency_key(cur)] = now
            /\ (cur.type = "RoomCreated" => cur.room \in room_created')]_vars
    /\ \A n \in 1..MaxEmits : (emitted >= n) ~> Attempted(n)

\* A submission failed, its completion is in the tracker, and the event
\* that was queued behind it is being submitted.
C30_Witness ==
    /\ result = "Err"
    /\ qpc = "submit"
    /\ Len(done) >= 1
    /\ cur.n = done[Len(done)].ev.n + 1
    /\ dependency_key(done[Len(done)].ev) \in DOMAIN last_tx_times


(***************************************************************************)
(* The Track Manager driven directly: tracks are registered as on_track    *)
(* registers them, and create_local_track_for_peer is called with any      *)
(* track id and any target.                                                *)
(***************************************************************************)
MaxTmCalls == 3

TmTrackIds == { TrackId(p, k, OrigTrackId) : p \in PeerIds, k \in TrackKinds }

nontm == <<rooms, peers, last, connections, peers_with_tracks, notif, sock, envelopes,
           icevars, renegvars, chainvars, queuevars, gradevars, closevars,
           errvars, idvars, wait, rtpvars, pipevars, lockvars, recvars>>

\* add_track(track_id, source_peer_id, remote_track) of a track not yet
\* registered.
TmAddTrack ==
    \E pid \in PeerIds, kind \in TrackKinds :
        /\ TrackId(pid, kind, OrigTrackId) \notin DOMAIN tracks
        /\ tracks' = add_track(tracks, TrackId(pid, kind, OrigTrackId), pid)
        /\ UNCHANGED <<tm_call, tm_given, nontm>>

\* create_local_track_for_peer(track_id, target_peer_id)
TmCreateLocalTrack ==
    /\ tm_call.n < MaxTmCalls
    /\ \E track_id \in TmTrackIds, target \in PeerIds :
           LET c == create_local_track_for_peer(tracks, track_id, target)
           IN  /\ tracks' = c.tracks
               /\ tm_call' = [n |-> tm_call.n + 1, track_id |-> track_id,
                              target |-> target, some |-> c.some, is_new |-> c.is_new]
               /\ tm_given' = IF c.some THEN tm_given \cup {<<track_id, target>>}
                               ELSE tm_given
    /\ UNCHANGED nontm

NextTm ==
    \/ TmAddTrack
    \/ TmCreateLocalTrack

SpecTm == Init /\ [][NextTm]_vars

RemovePeerRan(p) ==
    /\ p \in DOMAIN peers
    /\ p \notin DOMAIN peers'
    /\ (IsProctor(peers, p) \/ room_exists(rooms', peers[p].room_id))

\* C31: after SfuServer::remove_peer(p) no entry of the Track Manager has
\* p as its source and none holds a sink of subscriber p; when p is a
\* student, the entries of other sources are kept with their sinks of
\* other subscribers.
C31_RemovePeerDestroysSinks ==
    [][\A p \in PeerIds :
          RemovePeerRan(p) =>
              /\ \A t \in DOMAIN tracks' :
                     /\ tracks'[t].source_peer_id # p
                     /\ p \notin tracks'[t].local_tracks
              /\ IsStudent(peers, p) =>
                     \A t \in DOMAIN tracks :
                         tracks[t].source_peer_id # p =>
                             /\ t \in DOMAIN tracks'
                             /\ tracks'[t].source_peer_id = tracks[t].source_peer_id
                             /\ tracks'[t].local_tracks \ {p}
                                    = tracks[t].local_tracks \ {p}]_vars

\* C33: a Join for a peer id that is already in the connection table
\* changes neither the connection table, nor the registry, nor the set of
\* active recordings, sends no Offer and emits no domain event.
C33_DuplicateJoinIsNoOp ==
    [][\A pid \in PeerIds :
          ( /\ ev_count' = ev_count + 1
            /\ lastev'.op = "Join"
            /\ lastev'.peer = pid
            /\ pid \in DOMAIN connections )
          => /\ connections' = connections
             /\ rooms' = rooms
             /\ peers' = peers
             /\ recordings' = recordings
             /\ \A i \in 1..Len(log') :
                    /\ log'[i].kind # "event"
                    /\ ~(log'[i].kind = "send" /\ log'[i].type = "offer")]_vars

(***************************************************************************)
(* The RTP read loop of one published track (connection.rs                 *)
(* start_track_forwarding).  One iteration of the loop is one step: the    *)
(* snapshot get_track returns is a clone, so what the iteration writes     *)
(* depends on nothing that happens while it runs.                          *)
(***************************************************************************)
MaxPackets == 2
MaxRtpTime == 6
PLI_INTERVAL == 3

RtpSource == <<"p">>

RtpKinds == { "video", "audio" }

nonrtp == <<rooms, peers, last, connections, peers_with_tracks, notif, sock, envelopes,
            icevars, renegvars, chainvars, queuevars, gradevars, closevars,
            errvars, idvars, wait, tmvars, pipevars, lockvars, recvars>>

\* has_subscribers: a sink of the snapshot is keyed by another peer than
\* the source.
has_subscribers(local_tracks, source_peer_id) ==
    \E target_peer_id \in local_tracks : target_peer_id # source_peer_id

\* The test that sends a periodic PLI whatever time has passed.
pli_due_NoInterval(kind, subscribed, t, last_pli_time) ==
    subscribed /\ kind = "video"

\* The test before the periodic send_pli: subscribers, a video track, and
\* pli_interval passed since last_pli_time.
pli_due(kind, subscribed, t, last_pli_time) ==
    /\ subscribed
    /\ kind = "video"
    /\ t - last_pli_time >= PLI_INTERVAL

RtpWrite(pkt, target, ok) ==
    [kind |-> "write", pkt |-> pkt, target |-> target, ok |-> ok, sinks |-> {}, time |-> 0]

\* The for loop that returns at the first write_rtp error.
RECURSIVE forward_packet_StopAtError(_, _, _, _)
forward_packet_StopAtError(order, source_peer_id, failing, pkt) ==
    IF order = <<>> THEN <<>>
    ELSE IF Head(order) = source_peer_id
    THEN forward_packet_StopAtError(Tail(order), source_peer_id, failing, pkt)
    ELSE IF Head(order) \in failing
    THEN <<RtpWrite(pkt, Head(order), FALSE)>>
    ELSE <<RtpWrite(pkt, Head(order), TRUE)>>
         \o forward_packet_StopAtError(Tail(order), source_peer_id, failing, pkt)

\* for (target_peer_id, local_track) in &forwarded_track.local_tracks:
\* write_rtp to every sink not keyed by the source, in the order the map
\* hands them out; an Err is logged and the loop goes on.
RECURSIVE forward_packet(_, _, _, _)
forward_packet(order, source_peer_id, failing, pkt) ==
    IF order = <<>> THEN <<>>
    ELSE IF Head(order) = source_peer_id
    THEN forward_packet(Tail(order), source_peer_id, failing, pkt)
    ELSE <<RtpWrite(pkt, Head(order), Head(order) \notin failing)>>
         \o forward_packet(Tail(order), source_peer_id, failing, pkt)

\* on_track of the publisher: add_track, then the task is spawned; it takes
\* last_pli_time and sends the initial PLI of a video track.
RtpOnTrack ==
    \E kind \in RtpKinds, pli_ok \in BOOLEAN :
        /\ rtp.pc = "none"
        /\ tracks' = add_track(tracks, TrackId(RtpSource, kind, OrigTrackId), RtpSource)
        /\ rtp' = [rtp EXCEPT !.pc = "loop", !.kind = kind, !.last_pli_time = rtp.now]
        /\ rtp_log' = IF kind = "video"
                      THEN <<[kind |-> "pli", pkt |-> 0, target |-> None, ok |-> pli_ok,
                              sinks |-> {}, time |-> rtp.now]>>
                      ELSE <<>>
        /\ UNCHANGED nonrtp

\* A sink of the track is made for a peer (seeding of a join, or
\* handle_track_received).
RtpSubscribe ==
    \E target \in PeerIds :
        LET c == create_local_track_for_peer(
                     tracks, TrackId(RtpSource, rtp.kind, OrigTrackId), target)
        IN  /\ rtp.pc = "loop"
            /\ c.is_new
            /\ tracks' = c.tracks
            /\ UNCHANGED <<rtpvars, nonrtp>>

\* remove_peer of the publisher: its entries leave the Track Manager.
RtpRemoveTracks ==
    /\ rtp.pc = "loop"
    /\ tracks # EmptyMap
    /\ tracks' = remove_peer_tracks(tracks, RtpSource)
    /\ UNCHANGED <<rtpvars, nonrtp>>

\* track.read returned a packet: one iteration of the loop.
RtpPacket ==
    /\ rtp.pc = "loop"
    /\ rtp.packet_count < MaxPackets
    /\ LET tid == TrackId(RtpSource, rtp.kind, OrigTrackId)
           pkt == rtp.packet_count + 1
           found == tid \in DOMAIN tracks
           sinks == IF found THEN tracks[tid].local_tracks ELSE {}
           due == /\ found
                  /\ pli_due(rtp.kind, has_subscribers(sinks, RtpSource), rtp.now,
                             rtp.last_pli_time)
       IN  \E pli_ok \in BOOLEAN, failing \in SUBSET sinks, order \in Orders(sinks) :
               /\ due \/ pli_ok
               /\ rtp' = [rtp EXCEPT !.packet_count = pkt,
                                     !.last_pli_time = IF due /\ pli_ok THEN rtp.now ELSE @]
               /\ rtp_log' = rtp_log
                      \o <<[kind |-> "read", pkt |-> pkt, target |-> None, ok |-> found,
                            sinks |-> sinks, time |-> 0]>>
                      \o (IF due
                          THEN <<[kind |-> "periodic_pli", pkt |-> pkt, target |-> None,
                                  ok |-> pli_ok, sinks |-> {}, time |-> rtp.now]>>
                          ELSE <<>>)
                      \o forward_packet(order, RtpSource, failing, pkt)
    /\ UNCHANGED <<tracks, nonrtp>>

\* track.read returned Err: break.
RtpReadError ==
    /\ rtp.pc = "loop"
    /\ rtp' = [rtp EXCEPT !.pc = "ended"]
    /\ rtp_log' = Append(rtp_log, [kind |-> "read_error", pkt |-> rtp.packet_count,
                                   target |-> None,
                                   ok |-> FALSE, sinks |-> {}, time |-> 0])
    /\ UNCHANGED <<tracks, nonrtp>>

\* A second passes while the loop runs (the loop reads the clock only
\* relative to the time it was spawned).
RtpTick ==
    /\ rtp.pc = "loop"
    /\ rtp.now < MaxRtpTime
    /\ rtp' = [rtp EXCEPT !.now = @ + 1]
    /\ UNCHANGED <<rtp_log, tracks, nonrtp>>

NextRtp ==
    \/ RtpOnTrack
    \/ RtpSubscribe
    \/ RtpRemoveTracks
    \/ RtpPacket
    \/ RtpReadError
    \/ RtpTick

SpecRtp == Init /\ [][NextRtp]_vars

\* The places of the log where packet n was written to a sink.
WritesOf(n) ==
    { k \in 1..Len(rtp_log) : rtp_log[k].kind = "write" /\ rtp_log[k].pkt = n }

\* C34: every packet read is written once to every sink of the snapshot
\* that is not keyed by the source, whether or not an earlier write of the
\* packet failed, and to nothing else; the writes of a packet come after
\* its read and before the read of the next packet, so every subscriber is
\* written the packets in the order they were read; the loop has ended
\* only after a read error.
C34_PacketsForwardedInOrder ==
    /\ \A i \in 1..Len(rtp_log) :
           /\ rtp_log[i].kind = "read" =>
                  /\ rtp_log[i].pkt = IF i = 1 THEN 1 ELSE rtp_log[i - 1].pkt + 1
                  /\ { rtp_log[k].target : k \in WritesOf(rtp_log[i].pkt) }
                         = rtp_log[i].sinks \ {RtpSource}
                  /\ Cardinality(WritesOf(rtp_log[i].pkt))
                         = Cardinality(rtp_log[i].sinks \ {RtpSource})
           /\ rtp_log[i].kind = "write" =>
                  /\ i > 1
                  /\ rtp_log[i - 1].kind \in {"read", "periodic_pli", "write"}
                  /\ rtp_log[i - 1].pkt = rtp_log[i].pkt
    /\ rtp.pc = "ended" <=> (rtp_log # <<>> /\ rtp_log[Len(rtp_log)].kind = "read_error")

\* A write of the first packet failed, the packet was written to the other
\* sink after that, and the next packet was written to both.
C34_Witness ==
    \E i, j, k, l \in 1..Len(rtp_log) :
        /\ i < j /\ j < k /\ k < l
        /\ rtp_log[i].kind = "write" /\ rtp_log[i].pkt = 1 /\ ~rtp_log[i].ok
        /\ rtp_log[j].kind = "write" /\ rtp_log[j].pkt = 1 /\ rtp_log[j].ok
        /\ rtp_log[k].kind = "write" /\ rtp_log[k].pkt = 2
        /\ rtp_log[l].kind = "write" /\ rtp_log[l].pkt = 2
        /\ rtp_log[k].target # rtp_log[l].target

\* The periodic PLIs that were sent.
PeriodicPlis == { i \in 1..Len(rtp_log) : rtp_log[i].kind = "periodic_pli" /\ rtp_log[i].ok }

\* C35: a periodic PLI is sent only for a video track whose snapshot has a
\* subscriber other than the source, and two periodic PLIs of the track
\* are 3 seconds apart or more.
C35_PeriodicPliAtMostEvery3s ==
    /\ \A i \in PeriodicPlis :
           /\ rtp.kind = "video"
           /\ i > 1
           /\ rtp_log[i - 1].kind = "read"
           /\ rtp_log[i - 1].sinks \ {RtpSource} # {}
    /\ \A i, j \in PeriodicPlis :
           i < j => rtp_log[j].time - rtp_log[i].time >= PLI_INTERVAL

\* Two periodic PLIs were sent.
C35_Witness ==
    \E i, j \in PeriodicPlis : i < j

(***************************************************************************)
(* Recording pipelines (recording/pipeline.rs) driven directly: start and  *)
(* stop are called on any pipeline in any state.  Each call holds the      *)
(* pipeline's state mutex from its first statement to its return.          *)
(***************************************************************************)
MaxPipelines == 2
MaxPipeCalls == 4

nonpipe == <<rooms, peers, last, connections, tracks, peers_with_tracks, notif, sock,
             envelopes, icevars, renegvars, chainvars, queuevars, gradevars, closevars,
             errvars, idvars, wait, tmvars, rtpvars, lockvars, recvars>>

\* RecordingPipeline::start; gst_ok is what set_state(Playing) returned.
pipeline_start(state, gst_ok) ==
    IF state # "Idle" THEN [ok |-> FALSE, state |-> state]
    ELSE IF ~gst_ok THEN [ok |-> FALSE, state |-> state]
    ELSE [ok |-> TRUE, state |-> "Recording"]

\* RecordingPipeline::stop; gst_ok is what set_state(Null) returned.  The
\* state is Stopping from line 219 on, and Stopped is assigned after the ?
\* of set_state.
pipeline_stop(state, gst_ok) ==
    IF state # "Recording" THEN [ok |-> FALSE, state |-> state]
    ELSE IF ~gst_ok THEN [ok |-> FALSE, state |-> "Stopping"]
    ELSE [ok |-> TRUE, state |-> "Stopped"]

\* RecordingPipeline::new
PipeNew ==
    /\ Len(pipes) < MaxPipelines
    /\ pipes' = Append(pipes, "Idle")
    /\ UNCHANGED <<pipe_call, nonpipe>>

PipeStart ==
    /\ pipe_call.n < MaxPipeCalls
    /\ \E id \in 1..Len(pipes), gst_ok \in BOOLEAN :
           \E r \in { pipeline_start(pipes[id], gst_ok) } :
               /\ pipes' = [pipes EXCEPT ![id] = r.state]
               /\ pipe_call' = [id |-> id, op |-> "start", ok |-> r.ok,
                                before |-> pipes[id], n |-> pipe_call.n + 1]
    /\ UNCHANGED nonpipe

PipeStop ==
    /\ pipe_call.n < MaxPipeCalls
    /\ \E id \in 1..Len(pipes), gst_ok \in BOOLEAN :
           \E r \in { pipeline_stop(pipes[id], gst_ok) } :
               /\ pipes' = [pipes EXCEPT ![id] = r.state]
               /\ pipe_call' = [id |-> id, op |-> "stop", ok |-> r.ok,
                                before |-> pipes[id], n |-> pipe_call.n + 1]
    /\ UNCHANGED nonpipe

NextPipe ==
    \/ PipeNew
    \/ PipeStart
    \/ PipeStop

SpecPipe == Init /\ [][NextPipe]_vars

\* C36: start succeeds only from Idle and leaves the pipeline Recording;
\* stop succeeds only from Recording and leaves it Stopped; a call in any
\* other state returns an error and leaves the state as it was; after a
\* stop call that began in Recording has returned, with Ok or with Err,
\* the pipeline is Stopped or Error, not Stopping.
C36_PipelineTransitions ==
    [][pipe_call'.n = pipe_call.n + 1 =>
          LET c == pipe_call'
              after == pipes'[c.id]
          IN  /\ c.op = "start" =>
                     /\ c.ok => (c.before = "Idle" /\ after = "Recording")
                     /\ ~c.ok => after = c.before
              /\ c.op = "stop" =>
                     /\ c.ok => (c.before = "Recording" /\ after = "Stopped")
                     /\ (~c.ok /\ c.before # "Recording") => after = c.before
                     /\ c.before = "Recording" => after \in {"Stopped", "Error"}
              /\ \A id \in 1..Len(pipes) : id # c.id => pipes'[id] = pipes[id]]_vars

(***************************************************************************)
(* The locks of the RoomManager (sfu/room.rs): rooms and peers are two     *)
(* tokio RwLocks.  A call takes the locks of its plan one after the other, *)
(* each at an await where other calls run, and drops them when it returns. *)
(***************************************************************************)
LockOps == { "create_room", "join_room", "remove_peer", "remove_peer_none",
             "get_peer", "get_room" }

nonlock == <<rooms, peers, last, connections, tracks, peers_with_tracks, notif, sock,
             envelopes, icevars, renegvars, chainvars, queuevars, gradevars, closevars,
             errvars, idvars, wait, tmvars, rtpvars, pipevars, recvars>>

\* The locks an operation takes, in the order of its statements.
\* remove_peer takes rooms only when the peer was in the peer map
\* (remove_peer_none: it was not); the read-only calls take one read lock.
lock_plan(op) ==
    CASE op = "create_room" -> << <<"rooms", "write">>, <<"peers", "write">> >>
      [] op = "join_room" -> << <<"rooms", "write">>, <<"peers", "write">> >>
      [] op = "remove_peer" -> << <<"peers", "write">>, <<"rooms", "write">> >>
      [] op = "remove_peer_none" -> << <<"peers", "write">> >>
      [] op = "get_peer" -> << <<"peers", "read">> >>
      [] op = "get_room" -> << <<"rooms", "read">> >>

\* RwLock: a write guard needs the lock free, a read guard needs no writer.
can_lock(l, mode) ==
    IF mode = "write" THEN l.writer = 0 /\ l.readers = {}
    ELSE l.writer = 0

\* A call of the RoomManager begins.
LockCall(c) ==
    \E op \in LockOps :
        /\ calls[c].op = "none"
        /\ calls' = [calls EXCEPT ![c] = [op |-> op, held |-> 0, plan |-> lock_plan(op)]]
        /\ UNCHANGED <<locks, nonlock>>

\* .write().await or .read().await returns the guard.
LockAcquire(c) ==
    /\ calls[c].op \notin {"none", "returned"}
    /\ calls[c].held < Len(calls[c].plan)
    /\ LET want == calls[c].plan[calls[c].held + 1]
       IN  /\ can_lock(locks[want[1]], want[2])
           /\ locks' = [locks EXCEPT ![want[1]] =
                           IF want[2] = "write" THEN [@ EXCEPT !.writer = c]
                           ELSE [@ EXCEPT !.readers = @ \cup {c}]]
    /\ calls' = [calls EXCEPT ![c].held = @ + 1]
    /\ UNCHANGED nonlock

\* The call returns with all its guards: they are dropped.
LockReturn(c) ==
    /\ calls[c].op \notin {"none", "returned"}
    /\ calls[c].held = Len(calls[c].plan)
    /\ locks' = [l \in DOMAIN locks |->
                    [writer |-> IF locks[l].writer = c THEN 0 ELSE locks[l].writer,
                     readers |-> locks[l].readers \ {c}]]
    /\ calls' = [calls EXCEPT ![c] = [op |-> "returned", held |-> 0, plan |-> <<>>]]
    /\ UNCHANGED nonlock

NextLock ==
    \E c \in LockCalls :
        \/ LockCall(c)
        \/ LockAcquire(c)
        \/ LockReturn(c)

SpecLock == Init /\ [][NextLock]_vars

\* Every task is scheduled: a guard is handed out when the lock can be
\* taken, and a call that holds all its guards runs to its return.
SpecLockFair ==
    /\ SpecLock
    /\ \A c \in LockCalls : WF_vars(LockAcquire(c)) /\ WF_vars(LockReturn(c))

\* C37: every call of the RoomManager that has begun returns.
C37_RoomManagerCallsReturn ==
    \A c \in LockCalls :
        (calls[c].op \notin {"none", "returned"}) ~> (calls[c].op = "returned")

(***************************************************************************)
(* The RecordingManager (recording/recorder.rs) and the read loops.  Every *)
(* method takes the recordings RwLock first: start and stop for writing,   *)
(* push_video_rtp / push_audio_rtp for reading.                            *)
(***************************************************************************)
MaxStops == 2
MaxPushes == 2

nonrec == <<rooms, peers, last, connections, tracks, peers_with_tracks, notif, sock,
            envelopes, icevars, renegvars, queuevars, gradevars, closevars,
            errvars, idvars, wait, tmvars, rtpvars, pipevars, lockvars,
            enabled, peer_wallets, peer_exam_grades, ev_count, log, lastev>>

\* start_recording(room_id, peer_id): the write guard is held to the return.
RecStart ==
    \E rid \in RoomIds, pid \in PeerIds :
        /\ stopper.pc = "idle"
        /\ can_lock(rec_lock, "write")
        /\ <<rid, pid>> \notin recordings
        /\ recordings' = start_recording(recordings, enabled, rid, pid).recordings
        /\ UNCHANGED <<recvars, nonrec>>

\* stop_recording(room_id, peer_id): recordings.write().await returned and
\* the key was removed; pipeline.stop() is awaited with the guard held.  A
\* key without a recording returns Err at once.
RecStopBegin ==
    \E rid \in RoomIds, pid \in PeerIds :
        /\ stopper.pc = "idle"
        /\ stopper.n < MaxStops
        /\ can_lock(rec_lock, "write")
        /\ recordings' = stop_recording(recordings, rid, pid).recordings
        /\ IF stop_recording(recordings, rid, pid).ok
           THEN /\ rec_lock' = [rec_lock EXCEPT !.writer = 1]
                /\ stopper' = [pc |-> "eos", room |-> rid, todo |-> {}, cur |-> pid,
                               n |-> stopper.n + 1]
           ELSE /\ stopper' = [stopper EXCEPT !.n = @ + 1]
                /\ UNCHANGED rec_lock
        /\ UNCHANGED <<loops, nonrec>>

\* stop_all_recordings_in_room(room_id): the write guard is taken and the
\* room's keys are collected; each is removed and stopped in turn.
RecStopAllBegin ==
    \E rid \in RoomIds :
        LET keys == { k \in recordings : k[1] = rid }
        IN  /\ stopper.pc = "idle"
            /\ stopper.n < MaxStops
            /\ can_lock(rec_lock, "write")
            /\ keys # {}
            /\ \E k \in keys :
                   /\ recordings' = recordings \ {k}
                   /\ stopper' = [pc |-> "eos", room |-> rid,
                                  todo |-> { x[2] : x \in keys \ {k} }, cur |-> k[2],
                                  n |-> stopper.n + 1]
            /\ rec_lock' = [rec_lock EXCEPT !.writer = 1]
            /\ UNCHANGED <<loops, nonrec>>

\* The call goes on after the pipeline of stopper.cur: to the next key of
\* the room, or to its return, where the guard is dropped.
RecStopNext ==
    IF stopper.todo = {}
    THEN /\ stopper' = [NoStop EXCEPT !.n = stopper.n]
         /\ rec_lock' = [rec_lock EXCEPT !.writer = 0]
         /\ UNCHANGED recordings
    ELSE \E pid \in stopper.todo :
             /\ recordings' = recordings \ {<<stopper.room, pid>>}
             /\ stopper' = [stopper EXCEPT !.pc = "eos", !.cur = pid,
                                           !.todo = @ \ {pid}]
             /\ UNCHANGED rec_lock

\* pipeline.stop() returned (the end-of-stream wait of up to 5 s is over):
\* Ok goes on to the upload when an object store is configured, Err and no
\* object store go on after the pipeline.
RecStopEos ==
    /\ stopper.pc = "eos"
    /\ \/ /\ stopper' = [stopper EXCEPT !.pc = "upload"]
          /\ UNCHANGED <<rec_lock, recordings>>
       \/ RecStopNext
    /\ UNCHANGED <<loops, nonrec>>

\* client.upload_file returned, Ok or Err.
RecStopUploaded ==
    /\ stopper.pc = "upload"
    /\ RecStopNext
    /\ UNCHANGED <<loops, nonrec>>

\* The read loop of publisher p has read and forwarded a packet and calls
\* push_video_rtp / push_audio_rtp.
RecLoopRead(p) ==
    /\ loops[p].pc = "read"
    /\ loops[p].pushed < MaxPushes
    /\ loops' = [loops EXCEPT ![p].pc = "push"]
    /\ UNCHANGED <<rec_lock, stopper, recordings, nonrec>>

\* recordings.read().await returned: the packet is pushed when the key has
\* a pipeline, the guard is dropped, and the loop goes back to track.read.
RecLoopPush(p) ==
    /\ loops[p].pc = "push"
    /\ can_lock(rec_lock, "read")
    /\ loops' = [loops EXCEPT ![p] = [pc |-> "read", pushed |-> @.pushed + 1]]
    /\ UNCHANGED <<rec_lock, stopper, recordings, nonrec>>

NextRec ==
    \/ RecStart
    \/ RecStopBegin
    \/ RecStopAllBegin
    \/ RecStopEos
    \/ RecStopUploaded
    \/ \E p \in PeerIds : RecLoopRead(p)
    \/ \E p \in PeerIds : RecLoopPush(p)

SpecRec == Init /\ [][NextRec]_vars

\* C38: while a stop of one peer's recording waits for the end of stream
\* or uploads the file, the read loop of any other publisher that calls
\* push_video_rtp / push_audio_rtp gets its read guard: the push is not
\* held up by the stop.
C38_StopDoesNotBlockPush ==
    \A p \in PeerIds :
        ( /\ stopper.pc \in {"eos", "upload"}
          /\ p # stopper.cur
          /\ loops[p].pc = "push" )
        => can_lock(rec_lock, "read")

====
